---- MODULE Spec2Model ----
(***************************************************************************)
(* A model of the sentiment engine of SentimentFinance                     *)
(* (src/src/sentiment_analyzer.py): the text normalizer, the three         *)
(* scorers, the consensus combiner and the batch entry point; and of the   *)
(* pipeline that feeds it (src/src/lambda_handler.py), with the news       *)
(* client (src/src/data_fetcher.py) and the database manager               *)
(* (src/src/database_manager.py) the pipeline calls.                       *)
(*                                                                         *)
(* Exceptions.  A call that raises yields the record [raised |-> name] in  *)
(* place of a value.                                                       *)
(*                                                                         *)
(* Numbers.  Python floats are modelled as exact rationals in lowest       *)
(* terms, [num |-> n, den |-> d] with d > 0, so that equal values are      *)
(* equal records.  None is the record None.                                *)
(*                                                                         *)
(* Text.  A text is a sequence of items.  An item is a run of word         *)
(* characters written as one string ("profits"), one character that is     *)
(* not a word character (" ", ",", "#"), or a URL scheme ("http://").      *)
(* Adjacent word items stand for their concatenation: <<"out","look">> is  *)
(* the text "outlook".  The vocabulary below is chosen so that no          *)
(* concatenation of two or more of its items spells a lexicon term or a    *)
(* stop word.                                                              *)
(***************************************************************************)
EXTENDS Integers, Sequences, FiniteSets, TLC

VARIABLES
    pc,               \* position of the call: the entry point called, or "done"
    text,             \* the argument text of the call
    textblob_model,   \* what TextBlob(text).sentiment does in this call
    vader_model,      \* what SentimentIntensityAnalyzer.polarity_scores does
    textblob_result,  \* the method result of the polarity scorer
    vader_result,     \* the method result of the valence scorer
    keyword_result,   \* the method result of the keyword scorer
    result,           \* the value the call returns
    calls,            \* the components the call invoked, in order
    punkt_available,  \* the NLTK resource of word_tokenize is installed
    texts,            \* the argument list of analyze_batch
    library,          \* what the two sentiment models do on each text
    history,          \* the calls of analyze_sentiment on one analyzer so far
    article,          \* the argument of _prepare_text_for_analysis
    event,            \* the event of lambda_handler, the event type of process_pipeline
    articles,         \* the articles the news service delivers in the run
    faults,           \* the calls of the collaborators that raise in the run
    db,               \* the database: the number of articles past the retention,
                      \* or the rows of its tables
    responses,        \* what the news service answers for each company asked
    callers           \* the concurrent calls of the database manager

analysisVars == <<text, textblob_model, vader_model, textblob_result,
                  vader_result, keyword_result>>

batchVars == <<texts, library, history>>

pipelineVars == <<article, event, articles, faults, db>>

storeVars == <<responses, callers>>

vars == <<pc, analysisVars, result, calls, punkt_available, batchVars, pipelineVars,
          storeVars>>

-----------------------------------------------------------------------------
(* Bounds of the model *)

\* scores given to the combiner are k / ScoreScale, -ScoreScale <= k <= ScoreScale
ScoreScale == 2

\* enumerated texts have at most MaxTextLen items
MaxTextLen == 3

\* texts given to the keyword scorer alone have at most MaxKeywordTokens words
MaxKeywordTokens == 11

\* the longest list of texts given to analyze_batch
MaxBatch == 3

\* the most calls of analyze_sentiment made on one analyzer
MaxCalls == 3

\* the longest text given to _preprocess_text on its own, in items
MaxRawLen == 5

\* the most characters by which the content of an article exceeds the limit
MaxExcess == 2

\* the most articles fetched in one run
MaxArticles == 2

\* the most raw articles in one answer of the news service
MaxAnswer == 2

\* the most sequential calls of the database manager
MaxStoreCalls == 4

\* the most runs of the pipeline on one database
MaxRuns == 2

-----------------------------------------------------------------------------
(* Rationals *)

Abs(n) == IF n < 0 THEN -n ELSE n

RECURSIVE GCD(_, _)
GCD(a, b) == IF b = 0 THEN a ELSE GCD(b, a % b)

\* n / d in lowest terms, d # 0
Rat(n, d) ==
    LET s == IF d < 0 THEN -1 ELSE 1
        g == GCD(Abs(n), Abs(d))
    IN  [num |-> (s * n) \div g, den |-> (s * d) \div g]

Zero == Rat(0, 1)
One == Rat(1, 1)

RatAdd(a, b) == Rat(a.num * b.den + b.num * a.den, a.den * b.den)
RatSub(a, b) == Rat(a.num * b.den - b.num * a.den, a.den * b.den)
RatMul(a, b) == Rat(a.num * b.num, a.den * b.den)
RatDiv(a, b) == Rat(a.num * b.den, a.den * b.num)
RatLt(a, b) == a.num * b.den < b.num * a.den
RatLe(a, b) == a.num * b.den <= b.num * a.den
RatMin(a, b) == IF RatLe(a, b) THEN a ELSE b
RatMax(a, b) == IF RatLe(a, b) THEN b ELSE a

None == [none |-> TRUE]

\* the outcome of a call that raises an exception e with str(e) = message
Raised(e, message) == [raised |-> e, message |-> message]
IsRaised(r) == "raised" \in DOMAIN r

Labels == {"positive", "negative", "neutral"}

-----------------------------------------------------------------------------
(* Items of a text *)

\* \s
Whitespace == {" ", "\n", "\t"}

\* the punctuation _preprocess_text keeps: . , ! ? ; : -
KeptPunctuation == {".", ",", "!", "?", ";", ":", "-"}

\* characters that are neither \w nor \s nor kept punctuation
SpecialChars == {"#", "@", "$", "/", "&", "(", ")"}

UrlSchemes == {"http://", "https://"}

\* word items made of digits only
NumericItems == {"2024", "10"}

\* word items of one letter
OneLetterWords == {"a", "i"}

IsWordItem(x) == x \notin (Whitespace \cup KeptPunctuation \cup SpecialChars \cup UrlSchemes)

\* str.isalpha() of a word item
IsAlphaItem(x) == IsWordItem(x) /\ x \notin NumericItems

\* str.lower() of an item: the capitalised words of the sample texts and of
\* the tracked companies
LowerCase ==
    [x \in {"The", "Strong", "Weak", "Record", "Investors",
            "Apple", "Tesla", "Inc", "AAPL", "TSLA", "TSLAQ"} |->
        CASE x = "The" -> "the"
          [] x = "Strong" -> "strong"
          [] x = "Weak" -> "weak"
          [] x = "Record" -> "record"
          [] x = "Investors" -> "investors"
          [] x = "Apple" -> "apple"
          [] x = "Tesla" -> "tesla"
          [] x = "Inc" -> "inc"
          [] x = "AAPL" -> "aapl"
          [] x = "TSLA" -> "tsla"
          [] x = "TSLAQ" -> "tslaq"]

LowerItem(x) == IF x \in DOMAIN LowerCase THEN LowerCase[x] ELSE x

Lower(t) == [i \in 1..Len(t) |-> LowerItem(t[i])]

-----------------------------------------------------------------------------
(* Text Normalizer: _preprocess_text *)

\* the characters the URL pattern goes on matching after the scheme:
\* letters, digits, the range $ to _ and ! * ( ) ,  -  all but whitespace and #
InUrlClass(x) == x \notin (Whitespace \cup {"#"})

\* [A-Za-z0-9._%+-] and [A-Za-z0-9.-], on the items of the model
InLocalClass(x) == IsWordItem(x) \/ x \in {".", "-"}
InDomainClass(x) == IsWordItem(x) \/ x \in {".", "-"}

ItemsOf(t) == {t[k] : k \in 1..Len(t)}

\* the index after the longest run of items of the set S from index i
RECURSIVE RunEnd(_, _, _)
RunEnd(t, i, S) ==
    IF i <= Len(t) /\ t[i] \in S THEN RunEnd(t, i + 1, S) ELSE i

\* re.sub(r'http[s]?://(?:...)+', '', text)
RECURSIVE RemoveUrlsFrom(_, _)
RemoveUrlsFrom(t, i) ==
    IF i > Len(t) THEN <<>>
    ELSE IF t[i] \in UrlSchemes /\ i < Len(t) /\ InUrlClass(t[i + 1])
         THEN RemoveUrlsFrom(t, RunEnd(t, i + 1, {x \in ItemsOf(t) : InUrlClass(x)}))
         ELSE <<t[i]>> \o RemoveUrlsFrom(t, i + 1)

RemoveUrls(t) == RemoveUrlsFrom(t, 1)

\* the index of the last item of the e-mail address that starts at item i,
\* 0 when none starts there: a local part up to "@", a domain, and a last
\* "." followed by a word of two or more letters that ends at a word boundary
EmailEnd(t, i) ==
    LET at == RunEnd(t, i, {x \in ItemsOf(t) : InLocalClass(x)})
        m == RunEnd(t, at + 1, {x \in ItemsOf(t) : InDomainClass(x)})
        dots == {j \in (at + 2)..(m - 2) :
                    /\ t[j] = "."
                    /\ IsAlphaItem(t[j + 1])
                    /\ t[j + 1] \notin OneLetterWords
                    /\ (j + 2 <= Len(t) => ~IsWordItem(t[j + 2]))}
    IN  IF /\ IsWordItem(t[i])
           /\ (i > 1 => ~IsWordItem(t[i - 1]))
           /\ at <= Len(t)
           /\ t[at] = "@"
           /\ dots # {}
        THEN (CHOOSE j \in dots : \A k \in dots : k <= j) + 1
        ELSE 0

\* re.sub(r'\b[A-Za-z0-9._%+-]+@[A-Za-z0-9.-]+\.[A-Z|a-z]{2,}\b', '', text)
RECURSIVE RemoveEmailsFrom(_, _)
RemoveEmailsFrom(t, i) ==
    IF i > Len(t) THEN <<>>
    ELSE IF EmailEnd(t, i) > 0
         THEN RemoveEmailsFrom(t, EmailEnd(t, i) + 1)
         ELSE <<t[i]>> \o RemoveEmailsFrom(t, i + 1)

RemoveEmails(t) == RemoveEmailsFrom(t, 1)

\* re.sub(r'\s+', ' ', text)
RECURSIVE CollapseWhitespaceFrom(_, _)
CollapseWhitespaceFrom(t, i) ==
    IF i > Len(t) THEN <<>>
    ELSE IF t[i] \in Whitespace
         THEN <<" ">> \o CollapseWhitespaceFrom(t, RunEnd(t, i, Whitespace))
         ELSE <<t[i]>> \o CollapseWhitespaceFrom(t, i + 1)

CollapseWhitespace(t) == CollapseWhitespaceFrom(t, 1)

\* re.sub(r'[^\w\s.,!?;:-]', '', text); of a scheme left in the text the
\* slashes go and "http" and ":" stay
RECURSIVE RemoveSpecialFrom(_, _)
RemoveSpecialFrom(t, i) ==
    IF i > Len(t) THEN <<>>
    ELSE (CASE t[i] \in SpecialChars -> <<>>
            [] t[i] = "http://" -> <<"http", ":">>
            [] t[i] = "https://" -> <<"https", ":">>
            [] OTHER -> <<t[i]>>) \o RemoveSpecialFrom(t, i + 1)

RemoveSpecial(t) == RemoveSpecialFrom(t, 1)

\* str.strip()
RECURSIVE Strip(_)
Strip(t) ==
    IF t = <<>> THEN t
    ELSE IF Head(t) \in Whitespace THEN Strip(Tail(t))
    ELSE IF t[Len(t)] \in Whitespace THEN Strip(SubSeq(t, 1, Len(t) - 1))
    ELSE t

_preprocess_text(t) == Strip(RemoveSpecial(CollapseWhitespace(RemoveEmails(RemoveUrls(t)))))

-----------------------------------------------------------------------------
(* Static configuration: stop words and the two domain lexicons *)

\* stopwords.words('english'): the words of the NLTK list without apostrophe
stop_words ==
    {"i", "me", "my", "myself", "we", "our", "ours", "ourselves", "you",
     "your", "yours", "yourself", "yourselves", "he", "him", "his", "himself",
     "she", "her", "hers", "herself", "it", "its", "itself", "they", "them",
     "their", "theirs", "themselves", "what", "which", "who", "whom", "this",
     "that", "these", "those", "am", "is", "are", "was", "were", "be", "been",
     "being", "have", "has", "had", "having", "do", "does", "did", "doing",
     "a", "an", "the", "and", "but", "if", "or", "because", "as", "until",
     "while", "of", "at", "by", "for", "with", "about", "against", "between",
     "into", "through", "during", "before", "after", "above", "below", "to",
     "from", "up", "down", "in", "out", "on", "off", "over", "under", "again",
     "further", "then", "once", "here", "there", "when", "where", "why",
     "how", "all", "any", "both", "each", "few", "more", "most", "other",
     "some", "such", "no", "nor", "not", "only", "own", "same", "so", "than",
     "too", "very", "s", "t", "can", "will", "just", "don", "should", "now"}

\* the lexicons without the term "record"
LexiconsWithoutRecord ==
    [positive |->
        {"profit", "growth", "increase", "gain", "rise", "bull", "bullish",
         "up", "surge", "rally", "outperform", "beat", "exceed", "strong",
         "robust", "solid", "milestone", "breakthrough", "success"},
     negative |->
        {"loss", "decline", "fall", "drop", "bear", "bearish", "down",
         "crash", "plunge", "underperform", "miss", "weak", "poor",
         "disappointing", "struggle", "concern", "risk", "uncertainty"}]

financial_keywords ==
    [positive |->
        {"profit", "growth", "increase", "gain", "rise", "bull", "bullish",
         "up", "surge", "rally", "outperform", "beat", "exceed", "strong",
         "robust", "solid", "record", "milestone", "breakthrough", "success"},
     negative |->
        {"loss", "decline", "fall", "drop", "bear", "bearish", "down",
         "crash", "plunge", "underperform", "miss", "weak", "poor",
         "disappointing", "struggle", "concern", "risk", "uncertainty"}]

-----------------------------------------------------------------------------
(* word_tokenize: a token is a non-empty sequence of items standing for    *)
(* their concatenation                                                     *)

\* the item at index i is split off as a token of its own: , and : unless a
\* digit follows, ; ! ? and the special characters always, and the period
\* that ends a sentence
SplitsOff(t, i) ==
    \/ t[i] \in {";", "!", "?", "#", "@", "$", "&", "(", ")"}
    \/ t[i] \in {",", ":"} /\ (i < Len(t) => t[i + 1] \notin NumericItems)
    \/ t[i] = "." /\ (i < Len(t) => t[i + 1] \in Whitespace)

RECURSIVE TokenizeFrom(_, _, _)
TokenizeFrom(t, i, cur) ==
    LET flush == IF cur = <<>> THEN <<>> ELSE <<cur>>
    IN  IF i > Len(t) THEN flush
        ELSE IF t[i] \in Whitespace THEN flush \o TokenizeFrom(t, i + 1, <<>>)
        ELSE IF SplitsOff(t, i) THEN flush \o <<<<t[i]>>>> \o TokenizeFrom(t, i + 1, <<>>)
        ELSE TokenizeFrom(t, i + 1, Append(cur, t[i]))

word_tokenize(t) == TokenizeFrom(t, 1, <<>>)

\* token.isalpha()
IsAlpha(token) == \A k \in 1..Len(token) : IsAlphaItem(token[k])

\* token in a list of words
TokenIn(token, words) == Len(token) = 1 /\ token[1] \in words

-----------------------------------------------------------------------------
(* Method results *)

_empty_sentiment_result(method) ==
    [method |-> method, score |-> Zero, confidence |-> Zero, label |-> "neutral"]

\* _analyze_with_textblob returning on an exception the sentinel with its
\* default tag
TextBlobSentinelUntagged(t, model) ==
    IF model.raises THEN _empty_sentiment_result("unknown")
    ELSE LET polarity == model.polarity
             subjectivity == model.subjectivity
             label == IF RatLt(Rat(1, 10), polarity) THEN "positive"
                      ELSE IF RatLt(polarity, Rat(-1, 10)) THEN "negative"
                      ELSE "neutral"
         IN  [method |-> "textblob",
              score |-> polarity,
              confidence |-> RatSub(One, subjectivity),
              label |-> label,
              subjectivity |-> subjectivity]

\* _analyze_with_textblob returning on an exception a result with a null score
TextBlobSentinelNull(t, model) ==
    IF model.raises THEN [_empty_sentiment_result("textblob") EXCEPT !.score = None]
    ELSE LET polarity == model.polarity
             subjectivity == model.subjectivity
             label == IF RatLt(Rat(1, 10), polarity) THEN "positive"
                      ELSE IF RatLt(polarity, Rat(-1, 10)) THEN "negative"
                      ELSE "neutral"
         IN  [method |-> "textblob",
              score |-> polarity,
              confidence |-> RatSub(One, subjectivity),
              label |-> label,
              subjectivity |-> subjectivity]

\* Polarity Scorer.  model is what TextBlob does on the text: it raises, or
\* it yields a polarity and a subjectivity.
_analyze_with_textblob(t, model) ==
    IF model.raises THEN _empty_sentiment_result("textblob")
    ELSE LET polarity == model.polarity
             subjectivity == model.subjectivity
             label == IF RatLt(Rat(1, 10), polarity) THEN "positive"
                      ELSE IF RatLt(polarity, Rat(-1, 10)) THEN "negative"
                      ELSE "neutral"
         IN  [method |-> "textblob",
              score |-> polarity,
              confidence |-> RatSub(One, subjectivity),
              label |-> label,
              subjectivity |-> subjectivity]

\* Valence Scorer.  model is what VADER does on the text: it raises, or it
\* yields the compound score and the three proportions.
_analyze_with_vader(t, model) ==
    IF model.raises THEN _empty_sentiment_result("vader")
    ELSE LET compound_score == model.compound
             label == IF RatLe(Rat(5, 100), compound_score) THEN "positive"
                      ELSE IF RatLe(compound_score, Rat(-5, 100)) THEN "negative"
                      ELSE "neutral"
             confidence == RatMax(model.pos, RatMax(model.neu, model.neg))
         IN  [method |-> "vader",
              score |-> compound_score,
              confidence |-> confidence,
              label |-> label,
              pos |-> model.pos,
              neu |-> model.neu,
              neg |-> model.neg]

\* CountKeywords adding a negative term to the positive count
RECURSIVE CountKeywordsSwapped(_, _, _)
CountKeywordsSwapped(tokens, i, counts) ==
    IF i > Len(tokens) THEN counts
    ELSE IF TokenIn(tokens[i], financial_keywords.positive)
         THEN CountKeywordsSwapped(tokens, i + 1, [counts EXCEPT !.positive_count = @ + 1])
    ELSE IF TokenIn(tokens[i], financial_keywords.negative)
         THEN CountKeywordsSwapped(tokens, i + 1, [counts EXCEPT !.positive_count = @ + 1])
    ELSE CountKeywordsSwapped(tokens, i + 1, counts)

\* the loop that counts the keywords: the counts after the tokens from index i
RECURSIVE CountKeywords(_, _, _)
CountKeywords(tokens, i, counts) ==
    IF i > Len(tokens) THEN counts
    ELSE IF TokenIn(tokens[i], financial_keywords.positive)
         THEN CountKeywords(tokens, i + 1, [counts EXCEPT !.positive_count = @ + 1])
    ELSE IF TokenIn(tokens[i], financial_keywords.negative)
         THEN CountKeywords(tokens, i + 1, [counts EXCEPT !.negative_count = @ + 1])
    ELSE CountKeywords(tokens, i + 1, counts)

\* tokens = [token for token in tokens if token not in self.stop_words and token.isalpha()]
FilterTokens(tokens) ==
    SelectSeq(tokens, LAMBDA token : ~TokenIn(token, stop_words) /\ IsAlpha(token))

\* the counts of the keywords among the filtered tokens of a text
KeywordCounts(t) ==
    LET text_lower == Lower(t)
        tokens == FilterTokens(word_tokenize(text_lower))
    IN  CountKeywords(tokens, 1, [positive_count |-> 0, negative_count |-> 0])

\* KeywordResult without the cap of the confidence at 1.0
KeywordResultUncapped(counts) ==
    LET positive_count == counts.positive_count
        negative_count == counts.negative_count
        total_keywords == positive_count + negative_count
        score == Rat(positive_count - negative_count, total_keywords)
        label == IF RatLt(Rat(2, 10), score) THEN "positive"
                 ELSE IF RatLt(score, Rat(-2, 10)) THEN "negative"
                 ELSE "neutral"
        confidence == Rat(total_keywords, 10)
    IN  IF total_keywords = 0 THEN _empty_sentiment_result("financial_keywords")
        ELSE [method |-> "financial_keywords",
              score |-> score,
              confidence |-> confidence,
              label |-> label,
              positive_keywords |-> positive_count,
              negative_keywords |-> negative_count,
              total_keywords |-> total_keywords]

\* KeywordResult without the early return for zero keywords, the score of no
\* keyword taken as 0
KeywordResultNoEarlyReturn(counts) ==
    LET positive_count == counts.positive_count
        negative_count == counts.negative_count
        total_keywords == positive_count + negative_count
        score == IF total_keywords = 0 THEN Zero
                 ELSE Rat(positive_count - negative_count, total_keywords)
        label == IF RatLt(Rat(2, 10), score) THEN "positive"
                 ELSE IF RatLt(score, Rat(-2, 10)) THEN "negative"
                 ELSE "neutral"
        confidence == RatMin(Rat(total_keywords, 10), One)
    IN  [method |-> "financial_keywords",
         score |-> score,
         confidence |-> confidence,
         label |-> label,
         positive_keywords |-> positive_count,
         negative_keywords |-> negative_count,
         total_keywords |-> total_keywords]

\* the result of the keyword scorer from the counts of the loop
KeywordResult(counts) ==
    LET positive_count == counts.positive_count
        negative_count == counts.negative_count
        total_keywords == positive_count + negative_count
        score == Rat(positive_count - negative_count, total_keywords)
        label == IF RatLt(Rat(2, 10), score) THEN "positive"
                 ELSE IF RatLt(score, Rat(-2, 10)) THEN "negative"
                 ELSE "neutral"
        confidence == RatMin(Rat(total_keywords, 10), One)
    IN  IF total_keywords = 0 THEN _empty_sentiment_result("financial_keywords")
        ELSE [method |-> "financial_keywords",
              score |-> score,
              confidence |-> confidence,
              label |-> label,
              positive_keywords |-> positive_count,
              negative_keywords |-> negative_count,
              total_keywords |-> total_keywords]

\* Keyword Scorer
_analyze_financial_keywords(t) ==
    IF punkt_available THEN KeywordResult(KeywordCounts(t))
    ELSE Raised("LookupError", "Resource punkt not found.")

-----------------------------------------------------------------------------
(* Consensus Combiner *)

weights == [textblob |-> Rat(4, 10), vader |-> Rat(4, 10), financial_keywords |-> Rat(2, 10)]

\* the keys of label_votes in their insertion order
LabelOrder == <<"positive", "negative", "neutral">>

\* CombineLoop adding the scores without their weights
RECURSIVE CombineLoopUnweighted(_, _, _)
CombineLoopUnweighted(results, i, acc) ==
    IF i > Len(results) THEN acc
    ELSE LET res == results[i]
             method == res.method
         IN  IF method \in DOMAIN weights /\ res.score # None
             THEN LET weight == weights[method]
                  IN  CombineLoopUnweighted(results, i + 1,
                        [total_score |-> RatAdd(acc.total_score, res.score),
                         total_confidence |-> RatAdd(acc.total_confidence, res.confidence),
                         total_weight |-> RatAdd(acc.total_weight, weight),
                         label_votes |-> [acc.label_votes EXCEPT ![res.label] = RatAdd(@, weight)]])
             ELSE CombineLoopUnweighted(results, i + 1, acc)

\* the for loop over the results: the accumulators after the results from index i
RECURSIVE CombineLoop(_, _, _)
CombineLoop(results, i, acc) ==
    IF i > Len(results) THEN acc
    ELSE LET res == results[i]
             method == res.method
         IN  IF method \in DOMAIN weights /\ res.score # None
             THEN LET weight == weights[method]
                  IN  CombineLoop(results, i + 1,
                        [total_score |-> RatAdd(acc.total_score, RatMul(res.score, weight)),
                         total_confidence |-> RatAdd(acc.total_confidence, RatMul(res.confidence, weight)),
                         total_weight |-> RatAdd(acc.total_weight, weight),
                         label_votes |-> [acc.label_votes EXCEPT ![res.label] = RatAdd(@, weight)]])
             ELSE CombineLoop(results, i + 1, acc)

\* max(label_votes, key=label_votes.get): the first key, in insertion order,
\* whose vote no later key exceeds
RECURSIVE MaxVoteFrom(_, _, _)
MaxVoteFrom(label_votes, i, best) ==
    IF i > Len(LabelOrder) THEN best
    ELSE IF RatLt(label_votes[best], label_votes[LabelOrder[i]])
         THEN MaxVoteFrom(label_votes, i + 1, LabelOrder[i])
         ELSE MaxVoteFrom(label_votes, i + 1, best)

\* MaxVote letting the last of several tied keys win
RECURSIVE MaxVoteLastFrom(_, _, _)
MaxVoteLastFrom(label_votes, i, best) ==
    IF i > Len(LabelOrder) THEN best
    ELSE IF RatLe(label_votes[best], label_votes[LabelOrder[i]])
         THEN MaxVoteLastFrom(label_votes, i + 1, LabelOrder[i])
         ELSE MaxVoteLastFrom(label_votes, i + 1, best)

MaxVoteLast(label_votes) == MaxVoteLastFrom(label_votes, 2, LabelOrder[1])

\* MaxVote returning the first key whatever the votes
MaxVoteFirstKey(label_votes) == LabelOrder[1]

MaxVote(label_votes) == MaxVoteFrom(label_votes, 2, LabelOrder[1])

InitialAccumulators ==
    [total_score |-> Zero, total_confidence |-> Zero, total_weight |-> Zero,
     label_votes |-> [l \in Labels |-> Zero]]

\* the result built from the accumulators of the loop
CombinedResult(acc, tb, vd, kw) ==
    IF acc.total_weight = Zero THEN _empty_sentiment_result("combined")
    ELSE [method |-> "combined",
          sentiment_score |-> RatDiv(acc.total_score, acc.total_weight),
          confidence |-> RatDiv(acc.total_confidence, acc.total_weight),
          sentiment_label |-> MaxVote(acc.label_votes),
          individual_results |->
              [textblob |-> tb, vader |-> vd, financial_keywords |-> kw]]

\* _combine_sentiment_results dividing by the weight of all three methods
CombineOverAllWeights(tb, vd, kw) ==
    LET acc == CombineLoop(<<tb, vd, kw>>, 1, InitialAccumulators)
    IN  CombinedResult([acc EXCEPT !.total_weight =
                            IF @ = Zero THEN Zero
                            ELSE RatAdd(weights.textblob,
                                        RatAdd(weights.vader, weights.financial_keywords))],
                       tb, vd, kw)

\* _combine_sentiment_results dividing without the test for a zero total weight
CombineUnguarded(tb, vd, kw) ==
    LET acc == CombineLoop(<<tb, vd, kw>>, 1, InitialAccumulators)
    IN  IF acc.total_weight = Zero THEN [raises |-> "ZeroDivisionError"]
        ELSE CombinedResult(acc, tb, vd, kw)

_combine_sentiment_results(tb, vd, kw) ==
    CombinedResult(CombineLoop(<<tb, vd, kw>>, 1, InitialAccumulators), tb, vd, kw)

-----------------------------------------------------------------------------
(* analyze_sentiment *)

\* not text or not text.strip()
IsBlank(t) == t = <<>> \/ Strip(t) = <<>>

\* the pipeline on a text that is not blank
AnalyzeNonBlank(t, tb_model, vd_model) ==
    LET cleaned_text == _preprocess_text(t)
        tb == _analyze_with_textblob(cleaned_text, tb_model)
        vd == _analyze_with_vader(cleaned_text, vd_model)
        kw == _analyze_financial_keywords(cleaned_text)
    IN  IF IsRaised(kw)
        THEN [returns |-> kw,
              textblob_result |-> tb, vader_result |-> vd, keyword_result |-> None,
              calls |-> <<"_preprocess_text", "_analyze_with_textblob", "_analyze_with_vader",
                          "_analyze_financial_keywords">>]
        ELSE [returns |-> _combine_sentiment_results(tb, vd, kw),
              textblob_result |-> tb, vader_result |-> vd, keyword_result |-> kw,
              calls |-> <<"_preprocess_text", "_analyze_with_textblob", "_analyze_with_vader",
                          "_analyze_financial_keywords", "_combine_sentiment_results">>]

\* analyze_sentiment testing only "not text"
AnalyzeWithoutStrip(t, tb_model, vd_model) ==
    IF t = <<>>
    THEN [returns |-> _empty_sentiment_result("unknown"),
          textblob_result |-> None, vader_result |-> None, keyword_result |-> None,
          calls |-> <<>>]
    ELSE AnalyzeNonBlank(t, tb_model, vd_model)

\* analyze_sentiment tagging the result for blank text "combined"
AnalyzeBlankCombined(t, tb_model, vd_model) ==
    IF IsBlank(t)
    THEN [returns |-> _empty_sentiment_result("combined"),
          textblob_result |-> None, vader_result |-> None, keyword_result |-> None,
          calls |-> <<>>]
    ELSE AnalyzeNonBlank(t, tb_model, vd_model)

\* the value returned, the three method results and the components invoked
analyze_sentiment(t, tb_model, vd_model) ==
    IF IsBlank(t)
    THEN [returns |-> _empty_sentiment_result("unknown"),
          textblob_result |-> None, vader_result |-> None, keyword_result |-> None,
          calls |-> <<>>]
    ELSE AnalyzeNonBlank(t, tb_model, vd_model)

-----------------------------------------------------------------------------
(* analyze_batch *)

\* AnalyzeWith on an analyzer that keeps the models' outcome of a call and
\* uses it in the next call
AnalyzeWithMemory(lib, t) ==
    LET previous == IF history = <<>> THEN t ELSE history[Len(history)].text
    IN  analyze_sentiment(t, lib[previous].textblob, lib[previous].vader).returns

\* analyze_sentiment on an analyzer whose two models do lib[t] on the text t
AnalyzeWith(lib, t) == analyze_sentiment(t, lib[t].textblob, lib[t].vader).returns

\* BatchLoop numbering the results from 1
RECURSIVE BatchLoopFromOne(_, _, _, _)
BatchLoopFromOne(ts, lib, i, results) ==
    IF i > Len(ts) THEN results
    ELSE LET r == AnalyzeWith(lib, ts[i])
             item == IF IsRaised(r)
                     THEN [text_index |-> i, error |-> r.message]
                              @@ _empty_sentiment_result("error")
                     ELSE [text_index |-> i] @@ r
         IN  BatchLoopFromOne(ts, lib, i + 1, Append(results, item))

\* BatchLoop stopping at the first text whose analysis raises
RECURSIVE BatchLoopAborting(_, _, _, _)
BatchLoopAborting(ts, lib, i, results) ==
    IF i > Len(ts) THEN results
    ELSE LET r == AnalyzeWith(lib, ts[i])
         IN  IF IsRaised(r)
             THEN Append(results, [text_index |-> i - 1, error |-> r.message]
                                      @@ _empty_sentiment_result("error"))
             ELSE BatchLoopAborting(ts, lib, i + 1, Append(results, [text_index |-> i - 1] @@ r))

\* for i, text in enumerate(texts): the text at position i of the sequence has
\* the index i - 1 of the list
RECURSIVE BatchLoop(_, _, _, _)
BatchLoop(ts, lib, i, results) ==
    IF i > Len(ts) THEN results
    ELSE LET r == AnalyzeWith(lib, ts[i])
             item == IF IsRaised(r)
                     THEN [text_index |-> i - 1, error |-> r.message]
                              @@ _empty_sentiment_result("error")
                     ELSE [text_index |-> i - 1] @@ r
         IN  BatchLoop(ts, lib, i + 1, Append(results, item))

analyze_batch(ts, lib) == BatchLoop(ts, lib, 1, <<>>)

-----------------------------------------------------------------------------
(* The pipeline: src/src/lambda_handler.py *)

\* a Python string value; None is the other value a field holds
Str(s) == [str |-> s]

\* dict.get(key)
Get(dict, key) == IF key \in DOMAIN dict THEN dict[key] ELSE None

\* the truth value of None or a string
Truthy(v) == v # None /\ v.str # <<>>

\* len(content) > 2000
ContentLimit == 2000

\* ' '.join(text_parts)
RECURSIVE JoinParts(_)
JoinParts(text_parts) ==
    IF text_parts = <<>> THEN <<>>
    ELSE IF Len(text_parts) = 1 THEN text_parts[1]
    ELSE text_parts[1] \o <<" ">> \o JoinParts(Tail(text_parts))

\* _prepare_text_for_analysis cutting a content of 2000 characters too
PrepareCuttingAtLimit(a) ==
    LET title == Get(a, "title")
        description == Get(a, "description")
        content == Get(a, "content")
        cut == IF Truthy(content) /\ Len(content.str) >= ContentLimit
               THEN SubSeq(content.str, 1, ContentLimit) \o <<".", ".", ".">>
               ELSE content.str
    IN  JoinParts((IF Truthy(title) THEN <<title.str, title.str>> ELSE <<>>)
                  \o (IF Truthy(description) THEN <<description.str>> ELSE <<>>)
                  \o (IF Truthy(content) THEN <<cut>> ELSE <<>>))

\* the strings of an article are sequences of characters or of items
_prepare_text_for_analysis(a) ==
    LET title == Get(a, "title")
        description == Get(a, "description")
        content == Get(a, "content")
        cut == IF Truthy(content) /\ Len(content.str) > ContentLimit
               THEN SubSeq(content.str, 1, ContentLimit) \o <<".", ".", ".">>
               ELSE content.str
    IN  JoinParts((IF Truthy(title) THEN <<title.str, title.str>> ELSE <<>>)
                  \o (IF Truthy(description) THEN <<description.str>> ELSE <<>>)
                  \o (IF Truthy(content) THEN <<cut>> ELSE <<>>))

\* two of the ten companies of self.tracked_companies
tracked_companies ==
    <<[name |-> <<"Apple", " ", "Inc", ".">>, sector |-> "Technology", symbol |-> <<"AAPL">>],
      [name |-> <<"Tesla", " ", "Inc", ".">>, sector |-> "Automotive", symbol |-> <<"TSLA">>]>>

\* a company id, the other values being None and a raised exception
Id(n) == [id |-> n]

\* company_ids is the list of the (name, id) items of the dictionary, in
\* insertion order
IdOf(company_ids, name) ==
    LET at == {k \in DOMAIN company_ids : company_ids[k].name = name}
    IN  IF at = {} THEN None ELSE Id(company_ids[CHOOSE k \in at : TRUE].id)

\* str.split(): the maximal runs of items that are not whitespace
RECURSIVE Split(_)
Split(t) ==
    IF t = <<>> THEN <<>>
    ELSE IF Head(t) \in Whitespace THEN Split(Tail(t))
    ELSE LET end == RunEnd(t, 1, ItemsOf(t) \ Whitespace)
         IN  <<SubSeq(t, 1, end - 1)>> \o Split(SubSeq(t, end, Len(t)))

\* the word items that hold another word item: <<part, whole, "end">> when
\* the whole ends with the part, <<part, whole, "start">> when it starts with it
WordParts ==
    {<<"apple", "pineapple", "end">>, <<"inc", "zinc", "end">>, <<"tsla", "tslaq", "start">>}

\* keyword in article_text: the keyword is found at some offset; its first
\* item may be the end of a longer word and its last item the start of one
Occurs(keyword, t) ==
    \E k \in 0..(Len(t) - Len(keyword)) :
        \A j \in 1..Len(keyword) :
            \/ t[k + j] = keyword[j]
            \/ j = 1 /\ <<keyword[j], t[k + j], "end">> \in WordParts
            \/ j = Len(keyword) /\ <<keyword[j], t[k + j], "start">> \in WordParts

\* the first of the indices at which a loop returns, 0 when it returns at none
FirstIndex(S) == IF S = {} THEN 0 ELSE CHOOSE k \in S : \A j \in S : k <= j

\* _determine_company_id looking at the text before the search term
DetermineByTextFirst(a, company_ids) ==
    LET search_term == Get(a, "company_search_term")
        title == IF "title" \in DOMAIN a THEN a.title ELSE Str(<<>>)
        description == IF "description" \in DOMAIN a THEN a.description ELSE Str(<<>>)
        content == IF "content" \in DOMAIN a THEN a.content ELSE Str(<<>>)
    IN  IF None \in {title, description, content}
        THEN Raised("TypeError", "unsupported operand type(s) for +")
        ELSE LET article_text ==
                     Lower(title.str \o <<" ">> \o description.str \o <<" ">> \o content.str)
                 Named(company) ==
                     \E keyword \in ItemsOf(Split(Lower(company.name))) :
                         Occurs(keyword, article_text)
                 Quoted(company) == Occurs(Lower(company.symbol), article_text)
                 byName == FirstIndex({k \in DOMAIN company_ids : Named(company_ids[k])})
                 bySymbol ==
                     FirstIndex({k \in DOMAIN tracked_companies : Quoted(tracked_companies[k])})
             IN  IF byName # 0 THEN Id(company_ids[byName].id)
                 ELSE IF search_term # None /\ IdOf(company_ids, search_term.str) # None
                 THEN IdOf(company_ids, search_term.str)
                 ELSE IF bySymbol # 0 THEN IdOf(company_ids, tracked_companies[bySymbol].name)
                 ELSE None

_determine_company_id(a, company_ids) ==
    LET search_term == Get(a, "company_search_term")
        title == IF "title" \in DOMAIN a THEN a.title ELSE Str(<<>>)
        description == IF "description" \in DOMAIN a THEN a.description ELSE Str(<<>>)
        content == IF "content" \in DOMAIN a THEN a.content ELSE Str(<<>>)
    IN  IF search_term # None /\ IdOf(company_ids, search_term.str) # None
        THEN IdOf(company_ids, search_term.str)
        ELSE IF None \in {title, description, content}
        THEN Raised("TypeError", "unsupported operand type(s) for +")
        ELSE LET article_text ==
                     Lower(title.str \o <<" ">> \o description.str \o <<" ">> \o content.str)
                 Named(company) ==
                     \E keyword \in ItemsOf(Split(Lower(company.name))) :
                         Occurs(keyword, article_text)
                 Quoted(company) == Occurs(Lower(company.symbol), article_text)
                 byName == FirstIndex({k \in DOMAIN company_ids : Named(company_ids[k])})
                 bySymbol ==
                     FirstIndex({k \in DOMAIN tracked_companies : Quoted(tracked_companies[k])})
             IN  IF byName # 0 THEN Id(company_ids[byName].id)
                 ELSE IF bySymbol # 0 THEN IdOf(company_ids, tracked_companies[bySymbol].name)
                 ELSE None

\* a call of a collaborator: the operation and the position of the company
\* or article it is about (0 when it is about none)
Call(op, at) == [op |-> op, at |-> at]

\* _setup_companies: the companies whose insert_company does not raise, the
\* id of a company being the number of its row
RECURSIVE SetupLoop(_, _, _)
SetupLoop(fs, k, company_ids) ==
    IF k > Len(tracked_companies) THEN company_ids
    ELSE IF Call("insert_company", k) \in fs THEN SetupLoop(fs, k + 1, company_ids)
    ELSE SetupLoop(fs, k + 1,
                   Append(company_ids, [name |-> tracked_companies[k].name, id |-> k]))

_setup_companies(fs) == SetupLoop(fs, 1, <<>>)

\* what the two sentiment models do on the text of an article
ArticleModels ==
    [textblob |-> [raises |-> FALSE, polarity |-> Rat(1, 2), subjectivity |-> Rat(3, 4)],
     vader |-> [raises |-> FALSE, compound |-> Rat(1, 20),
                pos |-> Rat(1, 2), neu |-> Rat(1, 4), neg |-> Rat(1, 4)]]

\* ProcessLoop leaving the loop at the first article that raises
RECURSIVE ProcessLoopBreaking(_, _, _, _, _)
ProcessLoopBreaking(arts, company_ids, fs, i, acc) ==
    IF i > Len(arts) THEN acc
    ELSE
    LET a == arts[i]
        company_id == _determine_company_id(a, company_ids)
        looked == [acc EXCEPT !.calls = Append(@, Call("_determine_company_id", i))]
        stored == [looked EXCEPT !.calls = Append(@, Call("insert_article", i))]
        sentiment_result ==
            analyze_sentiment(_prepare_text_for_analysis(a),
                              ArticleModels.textblob, ArticleModels.vader).returns
        scored == [stored EXCEPT !.calls = Append(@, Call("insert_sentiment_score", i)),
                                 !.processed_count = @ + 1]
    IN  IF IsRaised(company_id) THEN looked
        ELSE IF company_id = None
        THEN ProcessLoopBreaking(arts, company_ids, fs, i + 1, looked)
        ELSE IF ~({"title", "url"} \subseteq DOMAIN a) THEN looked
        ELSE IF Call("insert_article", i) \in fs THEN looked
        ELSE IF IsRaised(sentiment_result) THEN stored
        ELSE IF "sentiment_score" \notin DOMAIN sentiment_result THEN stored
        ELSE IF Call("insert_sentiment_score", i) \in fs THEN stored
        ELSE ProcessLoopBreaking(arts, company_ids, fs, i + 1, scored)

\* the try block on the article at position i, for the company the lookup
\* gives and the result the analysis gives: the accumulators after it.  fs
\* holds the calls of the database that raise.
TryArticle(a, i, company_id, sentiment_result, fs, acc) ==
    LET looked == [acc EXCEPT !.calls = Append(@, Call("_determine_company_id", i))]
        stored == [looked EXCEPT !.calls = Append(@, Call("insert_article", i))]
        scored == [stored EXCEPT !.calls = Append(@, Call("insert_sentiment_score", i)),
                                 !.processed_count = @ + 1]
    IN  IF IsRaised(company_id) THEN looked
        ELSE IF company_id = None THEN looked
        ELSE IF ~({"title", "url"} \subseteq DOMAIN a) THEN looked
        ELSE IF Call("insert_article", i) \in fs THEN looked
        ELSE IF IsRaised(sentiment_result) THEN stored
        ELSE IF "sentiment_score" \notin DOMAIN sentiment_result THEN stored
        ELSE IF Call("insert_sentiment_score", i) \in fs THEN stored
        ELSE scored

\* for article in articles: the handler of the try block logs and continues
RECURSIVE ProcessLoop(_, _, _, _, _)
ProcessLoop(arts, company_ids, fs, i, acc) ==
    IF i > Len(arts) THEN acc
    ELSE ProcessLoop(arts, company_ids, fs, i + 1,
             TryArticle(arts[i], i, _determine_company_id(arts[i], company_ids),
                        analyze_sentiment(_prepare_text_for_analysis(arts[i]),
                                          ArticleModels.textblob,
                                          ArticleModels.vader).returns,
                        fs, acc))

\* the count returned and the calls made, after those of the trace so far
_process_articles(arts, company_ids, fs, trace) ==
    ProcessLoop(arts, company_ids, fs, 1, [processed_count |-> 0, calls |-> trace])

\* cleanup_old_articles(days_to_keep=90)
RetentionDays == 90

\* cleanup_old_articles: the rows deleted are counted, or the database raises
cleanup_old_articles(database, fs, days_to_keep) ==
    IF Call("cleanup_old_articles", 0) \in fs
    THEN [returns |-> Raised("Error", "database error"), db |-> database]
    ELSE [returns |-> [deleted_count |-> database.old_articles],
          db |-> [database EXCEPT !.old_articles = 0]]

\* _fetch_all_news_articles: the articles delivered, or the error of the
\* news service raised again
_fetch_all_news_articles(arts, fs) ==
    IF Call("fetch_financial_news", 0) \in fs THEN Raised("Exception", "fetch error")
    ELSE [all_articles |-> arts]

\* the results dictionary, without its clock readings
InitialResults(event_type) ==
    [event_type |-> event_type,
     companies_processed |-> 0,
     articles_fetched |-> 0,
     articles_processed |-> 0,
     sentiment_scores_created |-> 0,
     errors |-> <<>>,
     success |-> FALSE]

\* the except branch of process_pipeline
Failed(results, e) ==
    [results EXCEPT !.errors = Append(@, e.message), !.success = FALSE]

\* FinishPipeline running the cleanup for every event type
FinishAlwaysCleaning(event_type, set_up, fetched, processed, cleanup, database) ==
    LET counted == [set_up EXCEPT !.articles_fetched = Len(fetched.all_articles),
                                  !.articles_processed = processed.processed_count,
                                  !.sentiment_scores_created = processed.processed_count]
        cleaning == Append(processed.calls,
                           [op |-> "cleanup_old_articles", days_to_keep |-> RetentionDays])
    IN  IF IsRaised(cleanup.returns)
        THEN [returns |-> Failed(counted, cleanup.returns),
              calls |-> cleaning, db |-> cleanup.db]
        ELSE [returns |-> [old_articles_deleted |-> cleanup.returns.deleted_count]
                              @@ [counted EXCEPT !.success = TRUE],
              calls |-> cleaning, db |-> cleanup.db]

\* Step 4 and the end of the try block, for the articles fetched, the outcome
\* of _process_articles and what the cleanup does when it is called
FinishPipeline(event_type, set_up, fetched, processed, cleanup, database) ==
    LET counted == [set_up EXCEPT !.articles_fetched = Len(fetched.all_articles),
                                  !.articles_processed = processed.processed_count,
                                  !.sentiment_scores_created = processed.processed_count]
        cleaning == Append(processed.calls,
                           [op |-> "cleanup_old_articles", days_to_keep |-> RetentionDays])
    IN  IF event_type # "maintenance"
        THEN [returns |-> [counted EXCEPT !.success = TRUE],
              calls |-> processed.calls, db |-> database]
        ELSE IF IsRaised(cleanup.returns)
        THEN [returns |-> Failed(counted, cleanup.returns),
              calls |-> cleaning, db |-> cleanup.db]
        ELSE [returns |-> [old_articles_deleted |-> cleanup.returns.deleted_count]
                              @@ [counted EXCEPT !.success = TRUE],
              calls |-> cleaning, db |-> cleanup.db]

\* Steps 2 to 4, for the companies set up and the outcome of the fetch
ProcessFetched(event_type, set_up, fetched, company_ids, fs, database, trace) ==
    IF IsRaised(fetched)
    THEN [returns |-> Failed(set_up, fetched), calls |-> trace, db |-> database]
    ELSE IF fetched.all_articles = <<>>
    THEN [returns |-> set_up, calls |-> trace, db |-> database]
    ELSE FinishPipeline(event_type, set_up, fetched,
                        _process_articles(fetched.all_articles, company_ids, fs, trace),
                        cleanup_old_articles(database, fs, RetentionDays), database)

\* the results returned, the calls made after those of the trace, and the
\* database left
process_pipeline(event_type, arts, fs, database, trace) ==
    ProcessFetched(event_type,
                   [InitialResults(event_type) EXCEPT
                        !.companies_processed = Len(_setup_companies(fs))],
                   _fetch_all_news_articles(arts, fs),
                   _setup_companies(fs), fs, database,
                   Append(trace, Call("fetch_financial_news", 0)))

\* json.dumps(value)
JsonDumps(value) == [json |-> value]

\* the response of lambda_handler
Response(statusCode, body) ==
    [statusCode |-> statusCode,
     body |-> JsonDumps(body),
     headers |-> [content_type |-> "application/json"]]

\* the response of the except branch of lambda_handler
ErrorResponse(e) == Response(500, [error |-> e.message, success |-> FALSE])

\* the response to a run of the pipeline
RespondTo(run) ==
    IF IsRaised(run.returns)
    THEN [returns |-> ErrorResponse(run.returns), calls |-> run.calls, db |-> run.db]
    ELSE [returns |-> Response(200, run.returns), calls |-> run.calls, db |-> run.db]

\* lambda_handler passing "scheduled" whatever the source of the event
LambdaAlwaysScheduled(ev, arts, fs, database) ==
    LET event_source == IF "source" \in DOMAIN ev THEN ev.source ELSE Str(<<>>)
        constructed == <<Call("SentimentFinancePipeline", 0)>>
    IN  IF event_source = None
        THEN [returns |-> ErrorResponse(Raised("TypeError", "argument of type 'NoneType'")),
              calls |-> <<>>, db |-> database]
        ELSE IF Call("SentimentFinancePipeline", 0) \in fs
        THEN [returns |-> ErrorResponse(Raised("ValueError", "parameters must be provided")),
              calls |-> constructed, db |-> database]
        ELSE RespondTo(process_pipeline("scheduled", arts, fs, database,
                                        Append(constructed, [op |-> "process_pipeline",
                                                             event_type |-> "scheduled"])))

\* the response, the calls made and the database left.  The constructors of
\* the pipeline's components raise ValueError when their settings are missing.
lambda_handler(ev, arts, fs, database) ==
    LET event_source == IF "source" \in DOMAIN ev THEN ev.source ELSE Str(<<>>)
        event_type == IF Occurs(<<"events">>, event_source.str) THEN "scheduled"
                      ELSE "manual"
        constructed == <<Call("SentimentFinancePipeline", 0)>>
    IN  IF event_source = None
        THEN [returns |-> ErrorResponse(Raised("TypeError", "argument of type 'NoneType'")),
              calls |-> <<>>, db |-> database]
        ELSE IF Call("SentimentFinancePipeline", 0) \in fs
        THEN [returns |-> ErrorResponse(Raised("ValueError", "parameters must be provided")),
              calls |-> constructed, db |-> database]
        ELSE RespondTo(process_pipeline(event_type, arts, fs, database,
                                        Append(constructed, [op |-> "process_pipeline",
                                                             event_type |-> event_type])))

-----------------------------------------------------------------------------
(* The news client: src/src/data_fetcher.py *)

\* DataFetcher._process_articles: the raw articles of one answer in the
\* standard format; an article without title, publishedAt or url is skipped,
\* and a null description has no strip()
RECURSIVE StandardizeLoop(_, _, _, _)
StandardizeLoop(raw_articles, company, i, processed) ==
    IF i > Len(raw_articles) THEN [processed |-> processed]
    ELSE LET a == raw_articles[i]
         IN  IF ~(Truthy(a.title) /\ Truthy(a.publishedAt) /\ Truthy(a.url))
             THEN StandardizeLoop(raw_articles, company, i + 1, processed)
             ELSE IF a.description = None
             THEN Raised("AttributeError", "'NoneType' object has no attribute 'strip'")
             ELSE StandardizeLoop(raw_articles, company, i + 1,
                      Append(processed,
                             [title |-> Str(Strip(a.title.str)),
                              description |-> Str(Strip(a.description.str)),
                              url |-> Str(Strip(a.url.str)),
                              company_search_term |-> Str(company)]))

\* _fetch_company_news: the request raises, the answer is not ok, or its
\* articles are standardized
_fetch_company_news(company, response) ==
    IF IsRaised(response) THEN response
    ELSE IF response.status # "ok" THEN Raised("Exception", "API error")
    ELSE StandardizeLoop(response.articles, company, 1, <<>>)

\* the loop of fetch_financial_news over the companies
RECURSIVE FetchLoop(_, _, _, _)
FetchLoop(companies, answers, k, fetched) ==
    IF k > Len(companies) THEN fetched
    ELSE LET company_articles == _fetch_company_news(companies[k], answers[k])
         IN  IF IsRaised(company_articles)
             THEN FetchLoop(companies, answers, k + 1, fetched)
             ELSE FetchLoop(companies, answers, k + 1,
                            fetched \o company_articles.processed)

\* _deduplicate_articles keeping the last article of each URL
RECURSIVE DedupKeepingLast(_, _, _, _)
DedupKeepingLast(fetched, i, seen_urls, unique_articles) ==
    IF i > Len(fetched) THEN unique_articles
    ELSE LET url == fetched[i].url
         IN  IF Truthy(url) /\ \A j \in (i + 1)..Len(fetched) : fetched[j].url # url
             THEN DedupKeepingLast(fetched, i + 1, seen_urls \cup {url},
                                   Append(unique_articles, fetched[i]))
             ELSE DedupKeepingLast(fetched, i + 1, seen_urls, unique_articles)

\* the loop of _deduplicate_articles
RECURSIVE DedupLoop(_, _, _, _)
DedupLoop(fetched, i, seen_urls, unique_articles) ==
    IF i > Len(fetched) THEN unique_articles
    ELSE LET url == fetched[i].url
         IN  IF Truthy(url) /\ url \notin seen_urls
             THEN DedupLoop(fetched, i + 1, seen_urls \cup {url},
                            Append(unique_articles, fetched[i]))
             ELSE DedupLoop(fetched, i + 1, seen_urls, unique_articles)

_deduplicate_articles(fetched) == DedupLoop(fetched, 1, {}, <<>>)

fetch_financial_news(companies, answers) ==
    _deduplicate_articles(FetchLoop(companies, answers, 1, <<>>))

-----------------------------------------------------------------------------
(* The database manager: src/src/database_manager.py.  A table is the      *)
(* sequence of its rows in the order of their insertion, the id of a row   *)
(* being its AUTO_INCREMENT number.  The schema is not part of the         *)
(* sources: the columns that carry a unique key are a part of the          *)
(* database that the model leaves open.                                    *)

\* the columns that may carry a unique key
UniqueKeys == {"companies.name", "articles.url", "sentiment_scores.article_id"}

\* the database with no rows
EmptyDatabase(unique) ==
    [companies |-> <<>>, articles |-> <<>>, sentiment_scores |-> <<>>,
     unique |-> unique, old_articles |-> 0]

\* cursor.fetchone() for SELECT id FROM table WHERE column = value
FetchOne(table, column, value) ==
    LET found == {k \in DOMAIN table : table[k][column] = value}
    IN  IF found = {} THEN None
        ELSE Id(table[CHOOSE k \in found : \A j \in found : k <= j].id)

get_company_id(database, name) == FetchOne(database.companies, "name", name)

article_exists(database, url) == FetchOne(database.articles, "url", url) # None

get_article_id_by_url(database, url) == FetchOne(database.articles, "url", url)

\* cursor.execute of an INSERT and conn.commit(): the row is added with the
\* next id, or the database raises and the connection is rolled back; it
\* raises when the row repeats the value of a unique key
Insert(database, table, row, key, fails) ==
    LET duplicate == /\ (table \o "." \o key) \in database.unique
                     /\ \E k \in DOMAIN database[table] : database[table][k][key] = row[key]
        lastrowid == Len(database[table]) + 1
    IN  IF fails \/ duplicate
        THEN [returns |-> Raised("Error", "database error"), db |-> database,
              statements |-> <<"INSERT", "ROLLBACK">>]
        ELSE [returns |-> Id(lastrowid),
              db |-> [database EXCEPT ![table] = Append(@, [id |-> lastrowid] @@ row)],
              statements |-> <<"INSERT", "COMMIT">>]

\* insert_company inserting without looking for the name
InsertCompanyUnchecked(database, name, fails) ==
    Insert(database, "companies", [name |-> name], "name", fails)

\* insert_company: the id returned, the database left and the statements
\* executed
insert_company(database, name, fails) ==
    LET existing_id == get_company_id(database, name)
        inserted == Insert(database, "companies", [name |-> name], "name", fails)
    IN  IF existing_id # None
        THEN [returns |-> existing_id, db |-> database, statements |-> <<"SELECT">>]
        ELSE [inserted EXCEPT !.statements = <<"SELECT">> \o @]

insert_article(database, url, company_id, fails) ==
    LET inserted == Insert(database, "articles",
                           [url |-> url, company_id |-> company_id], "url", fails)
    IN  IF article_exists(database, url)
        THEN [returns |-> get_article_id_by_url(database, url), db |-> database,
              statements |-> <<"SELECT", "SELECT">>]
        ELSE [inserted EXCEPT !.statements = <<"SELECT">> \o @]

insert_sentiment_score(database, article_id, fails) ==
    Insert(database, "sentiment_scores",
           [article_id |-> article_id, processing_method |-> "combined"],
           "article_id", fails)

\* the database after the calls of insert_company of _setup_companies
RECURSIVE StoreCompanies(_, _, _)
StoreCompanies(database, fs, k) ==
    IF k > Len(tracked_companies) THEN database
    ELSE StoreCompanies(insert_company(database, tracked_companies[k].name,
                                       Call("insert_company", k) \in fs).db,
                        fs, k + 1)

\* the database after the calls of insert_article and insert_sentiment_score
\* that returned in a run, in the order of the trace: acc holds the
\* database, the id insert_article returned for the article of each position
\* and whether the database let every one of these calls return
RECURSIVE StoreCalls(_, _, _, _)
StoreCalls(trace, arts, company_ids, acc) ==
    IF trace = <<>> THEN acc
    ELSE IF Head(trace).op = "insert_article"
    THEN LET at == Head(trace).at
             done == insert_article(acc.db, arts[at].url.str,
                                    _determine_company_id(arts[at], company_ids).id, FALSE)
         IN  StoreCalls(Tail(trace), arts, company_ids,
                        [db |-> done.db,
                         article_ids |-> (at :> done.returns) @@ acc.article_ids,
                         agrees |-> acc.agrees /\ ~IsRaised(done.returns)])
    ELSE IF Head(trace).op = "insert_sentiment_score"
    THEN LET done == insert_sentiment_score(acc.db, acc.article_ids[Head(trace).at].id, FALSE)
         IN  StoreCalls(Tail(trace), arts, company_ids,
                        [acc EXCEPT !.db = done.db,
                                    !.agrees = @ /\ ~IsRaised(done.returns)])
    ELSE StoreCalls(Tail(trace), arts, company_ids, acc)

\* the database after a run of the pipeline that made the calls of the trace
StoreRun(trace, arts, fs, database) ==
    StoreCalls(trace, arts, _setup_companies(fs),
               [db |-> StoreCompanies(database, fs, 1), article_ids |-> <<>>,
                agrees |-> TRUE])

\* the table and the column of the key of insert_company and insert_article
TableOf(op) == IF op = "insert_company" THEN "companies" ELSE "articles"
ColumnOf(op) == IF op = "insert_company" THEN "name" ELSE "url"

\* the row the call inserts
RowOf(op, key) ==
    IF op = "insert_company" THEN [name |-> key] ELSE [url |-> key, company_id |-> 1]

-----------------------------------------------------------------------------
(* Inputs *)

\* sequences over S of length at most n
SeqsUpTo(S, n) == UNION {[1..k -> S] : k \in 0..n}

\* what the polarity model can do on a text
TextBlobModels ==
    {[raises |-> TRUE]} \cup
    [raises : {FALSE},
     polarity : {Rat(-1, 1), Rat(1, 10), Rat(1, 2)},
     subjectivity : {Zero, Rat(3, 4)}]

\* what the valence model can do on a text
VaderModels ==
    {[raises |-> TRUE]} \cup
    {[raises |-> FALSE, compound |-> c, pos |-> p[1], neu |-> p[2], neg |-> p[3]] :
        c \in {Rat(-1, 2), Rat(-1, 25), Rat(1, 20)},
        p \in {<<Zero, One, Zero>>, <<Rat(1, 2), Rat(1, 4), Rat(1, 4)>>}}

\* the method results given to the combiner
ScoreValues == {Rat(k, ScoreScale) : k \in (-ScoreScale)..ScoreScale} \cup {None}
ConfidenceValues == {Zero, One}
MethodResults(method) ==
    [method : {method}, score : ScoreValues, confidence : ConfidenceValues, label : Labels]

\* the items of the enumerated texts
TextItems == {"strong", "weak", "the", "outlook", " ", ",", "#"}

\* "missed earnings, weak outlook, significant risk"
NegativeScenario ==
    <<"missed", " ", "earnings", ",", " ", "weak", " ", "outlook", ",", " ",
      "significant", " ", "risk">>

\* "record profits and strong growth, investors optimistic"
PositiveScenario ==
    <<"record", " ", "profits", " ", "and", " ", "strong", " ", "growth", ",", " ",
      "investors", " ", "optimistic">>

SampleTexts ==
    {NegativeScenario, PositiveScenario, <<"\n", " ", "\t">>,
     <<"Record", " ", "profit", " ", "http://", "news", ".", "com", "/", "up", " ", "#", "Strong">>,
     <<"weak", "-", "outlook", " ", "mail", " ", "ir", "@", "corp", ".", "com", " ", "10", " ", "down">>}

Texts == SeqsUpTo(TextItems, MaxTextLen) \cup SampleTexts

\* w1 w2 ... wn, the words separated by single spaces
RECURSIVE JoinWords(_)
JoinWords(ws) ==
    IF ws = <<>> THEN <<>>
    ELSE IF Len(ws) = 1 THEN ws
    ELSE <<Head(ws), " ">> \o JoinWords(Tail(ws))

KeywordTexts ==
    {JoinWords(ws) : ws \in SeqsUpTo({"strong", "weak"}, MaxKeywordTokens)}
    \cup {_preprocess_text(t) : t \in Texts}
    \cup {<<term>> : term \in financial_keywords.positive \cup financial_keywords.negative}

\* the raw texts given to _preprocess_text on its own
RawItems == {"the", " ", "\n", "#", "http://"}
RawTexts == SeqsUpTo(RawItems, MaxRawLen)

\* a string of n characters
Chars(n) == [i \in 1..n |-> <<"a", "b", "c">>[(i % 3) + 1]]

\* the lengths of the contents, around the limit
ContentLengths ==
    {1, 2} \cup ((ContentLimit - 1)..(ContentLimit + MaxExcess))

\* the articles given to _prepare_text_for_analysis: any of the three fields
\* may be missing, None, empty or a string
ArticleFields ==
    [title : {None, Str(<<>>), Str(<<"U", "p">>)},
     description : {None, Str(<<>>), Str(<<"d">>)},
     content : {None, Str(<<>>)} \cup {Str(Chars(n)) : n \in ContentLengths}]
PreparedArticles ==
    {[k \in D |-> a[k]] : D \in {{"title", "description", "content"},
                                 {"description", "content"}, {"title", "content"},
                                 {"content"}, {"title"}, {}},
                           a \in ArticleFields}

\* the articles of a run: one fetched for a company, one about no company,
\* one whose description is null, one without text, one naming a stock symbol
FetchedArticles ==
    {[company_search_term |-> Str(<<"Apple", " ", "Inc", ".">>),
      title |-> Str(<<"strong", " ", "growth">>), description |-> None,
      content |-> Str(<<"the", " ", "outlook">>), url |-> Str(<<"u1">>)],
     [title |-> Str(<<"the", " ", "outlook">>), description |-> Str(<<>>),
      url |-> Str(<<"u2">>)],
     [title |-> Str(<<"Tesla", " ", "weak">>), description |-> None, url |-> Str(<<"u3">>)],
     [company_search_term |-> Str(<<"Tesla", " ", "Inc", ".">>),
      title |-> Str(<<>>), url |-> Str(<<"u4">>)],
     [title |-> Str(<<"TSLA", " ", "record">>), content |-> Str(<<"weak">>),
      url |-> Str(<<"u5">>)]}

\* the calls of insert_article and insert_sentiment_score that can raise
ArticleFaults(arts) ==
    {Call(op, i) : op \in {"insert_article", "insert_sentiment_score"}, i \in DOMAIN arts}

\* the articles given to _determine_company_id: fetched for a company, for a
\* sector or with no search term, with texts that name a company, hold a
\* name word inside a longer word, quote stock symbols, or do neither
LookupArticles ==
    {[k \in D |-> a[k]] :
        D \in {{"company_search_term", "title", "description", "content"},
               {"title", "description", "content"}, {"title"}, {"company_search_term"}},
        a \in [company_search_term : {Str(<<>>), Str(<<"Apple", " ", "Inc", ".">>),
                                      Str(<<"Tesla", " ", "Inc", ".">>),
                                      Str(<<"sector", ":", "technology">>)},
               title : {Str(<<"Tesla", " ", "weak">>), Str(<<"pineapple", " ", "record">>),
                        Str(<<"AAPL", " ", "TSLA">>), Str(<<"the", " ", "outlook">>),
                        Str(<<"zinc", ".">>), Str(<<"TSLAQ">>)},
               description : {Str(<<>>), Str(<<"strong", " ", "growth">>)},
               content : {Str(<<>>), Str(<<"Apple">>)}]}

\* the event types process_pipeline is given
EventTypes == {"scheduled", "manual", "maintenance"}

\* the calls that can raise in a run of the pipeline
PipelineFaults ==
    {Call("insert_company", 2), Call("fetch_financial_news", 0),
     Call("insert_article", 1), Call("cleanup_old_articles", 0)}

\* the database before a run: no article is past the retention, or 25 are
Databases == {[old_articles |-> n] : n \in {0, 25}}

\* the events given to lambda_handler: from EventBridge, from a manual
\* invocation, without a source, and with a null source
LambdaEvents ==
    {[source |-> Str(<<"aws", ".", "events">>)],
     [source |-> Str(<<"manual", ".", "test">>)],
     [detail |-> Str(<<>>)],
     [source |-> None]}

\* the calls that can raise in an invocation of lambda_handler
LambdaFaults ==
    {Call("SentimentFinancePipeline", 0), Call("fetch_financial_news", 0),
     Call("insert_article", 1)}

\* the texts of a batch
BatchItems == {<<>>, <<" ">>, <<"strong">>, <<"weak", " ", "outlook">>}

\* what the two models do on one text
ModelPairs ==
    {[textblob |-> [raises |-> FALSE, polarity |-> Rat(1, 2), subjectivity |-> Zero],
      vader |-> [raises |-> TRUE]],
     [textblob |-> [raises |-> TRUE],
      vader |-> [raises |-> FALSE, compound |-> Rat(-1, 2),
                 pos |-> Zero, neu |-> One, neg |-> Zero]]}

\* the models are functions of the text
Libraries == [BatchItems -> ModelPairs]

\* the raw articles of the news service: two with one URL, one whose URL
\* differs from it by a trailing space, one with another URL, one whose URL
\* is a space, one without title and one with a null description
RawArticles ==
    LET raw(title, url, description) ==
            [title |-> title, url |-> Str(url), description |-> description,
             publishedAt |-> Str(<<"2024">>)]
    IN  {raw(Str(<<"growth">>), <<"u1">>, Str(<<>>)),
         raw(Str(<<"loss">>), <<"u1">>, Str(<<"weak">>)),
         raw(Str(<<"record">>), <<"u1", " ">>, Str(<<>>)),
         raw(Str(<<"outlook">>), <<"u2">>, Str(<<" ">>)),
         raw(Str(<<"strong">>), <<" ">>, Str(<<>>)),
         raw(None, <<"u2">>, Str(<<>>)),
         raw(Str(<<"weak">>), <<"u2">>, None)}

\* what the news service does for one company: the request raises, the
\* answer reports an error, or it holds up to MaxAnswer raw articles
Answers ==
    {Raised("RequestException", "timeout"), [status |-> "error"]}
        \cup {[status |-> "ok", articles |-> r] : r \in SeqsUpTo(RawArticles, MaxAnswer)}

\* the URLs of the articles stored
Urls == {<<"u1">>, <<"u2">>}

\* the databases at the start: no rows, under each choice of unique keys
Schemas == {EmptyDatabase(unique) : unique \in SUBSET UniqueKeys}

\* the articles delivered to the runs that store them: those fetched for a
\* company, one with a text and one whose text is blank
DeliveredArticles == {a \in FetchedArticles : "company_search_term" \in DOMAIN a}

\* the calls of insert_sentiment_score that can raise in a run
ScoreFaults(arts) == {Call("insert_sentiment_score", i) : i \in DOMAIN arts}

\* the databases before the first run: no rows, with or without a unique key
\* on the article of a sentiment score
RunSchemas == {EmptyDatabase(unique) : unique \in SUBSET {"sentiment_scores.article_id"}}

\* the databases two concurrent callers start on: without rows, or with the
\* company and the article that one of them asks for
SharedDatabases ==
    Schemas \cup
    {insert_article(insert_company(d, tracked_companies[1].name, FALSE).db,
                    <<"u1">>, 1, FALSE).db : d \in Schemas}

\* the calls of two concurrent callers, each about to look for its key
ConcurrentCalls ==
    {<<[op |-> op, key |-> k[1], pc |-> "check", returns |-> None],
       [op |-> op, key |-> k[2], pc |-> "check", returns |-> None]>> :
        op \in {"insert_company"}, k \in {<<tracked_companies[i].name, tracked_companies[j].name>> :
                                             i, j \in DOMAIN tracked_companies}}
    \cup
    {<<[op |-> op, key |-> k[1], pc |-> "check", returns |-> None],
       [op |-> op, key |-> k[2], pc |-> "check", returns |-> None]>> :
        op \in {"insert_article"}, k \in Urls \X Urls}

-----------------------------------------------------------------------------
(* The calls *)

\* no batch and no earlier call
NoBatch == texts = <<>> /\ library = <<>> /\ history = <<>>

\* no news service asked, no concurrent callers
NoStore == responses = <<>> /\ callers = <<>>

\* no analysis
NoAnalysis ==
    /\ text = <<>>
    /\ textblob_model = None
    /\ vader_model = None
    /\ textblob_result = None
    /\ vader_result = None
    /\ keyword_result = None
    /\ punkt_available = TRUE

\* no pipeline
NoPipeline ==
    article = None /\ event = None /\ articles = <<>> /\ faults = {} /\ db = None

\* a call of _combine_sentiment_results on three method results
InitCombine ==
    /\ pc = "combine"
    /\ NoStore
    /\ text = <<>>
    /\ textblob_model = None
    /\ vader_model = None
    /\ textblob_result \in MethodResults("textblob")
    /\ vader_result \in MethodResults("vader")
    /\ keyword_result \in MethodResults("financial_keywords")
    /\ result = None
    /\ calls = <<>>
    /\ punkt_available = TRUE
    /\ NoBatch
    /\ NoPipeline

CombineSentimentResults ==
    /\ pc = "combine"
    /\ result' = _combine_sentiment_results(textblob_result, vader_result, keyword_result)
    /\ calls' = <<"_combine_sentiment_results">>
    /\ pc' = "done"
    /\ UNCHANGED <<storeVars, analysisVars, punkt_available, batchVars, pipelineVars>>

SpecCombine == InitCombine /\ [][CombineSentimentResults]_vars

\* a call of _analyze_financial_keywords on a normalized text
InitKeywords ==
    /\ pc = "keywords"
    /\ NoStore
    /\ text \in KeywordTexts
    /\ textblob_model = None
    /\ vader_model = None
    /\ textblob_result = None
    /\ vader_result = None
    /\ keyword_result = None
    /\ result = None
    /\ calls = <<>>
    /\ punkt_available = TRUE
    /\ NoBatch
    /\ NoPipeline

AnalyzeFinancialKeywords ==
    /\ pc = "keywords"
    /\ keyword_result' = _analyze_financial_keywords(text)
    /\ result' = keyword_result'
    /\ calls' = <<"_analyze_financial_keywords">>
    /\ pc' = "done"
    /\ UNCHANGED <<storeVars, text, textblob_model, vader_model, textblob_result, vader_result,
                   punkt_available, batchVars, pipelineVars>>

SpecKeywords == InitKeywords /\ [][AnalyzeFinancialKeywords]_vars

\* a call of analyze_sentiment on a text
\* analyze_batch on a list of texts
InitBatch ==
    /\ pc = "analyze_batch"
    /\ NoStore
    /\ texts \in SeqsUpTo(BatchItems, MaxBatch)
    /\ library \in Libraries
    /\ punkt_available \in BOOLEAN
    /\ history = <<>>
    /\ text = <<>>
    /\ textblob_model = None
    /\ vader_model = None
    /\ textblob_result = None
    /\ vader_result = None
    /\ keyword_result = None
    /\ result = None
    /\ calls = <<>>
    /\ NoPipeline

AnalyzeBatch ==
    /\ pc = "analyze_batch"
    /\ result' = analyze_batch(texts, library)
    /\ pc' = "done"
    /\ UNCHANGED <<storeVars, analysisVars, calls, punkt_available, batchVars, pipelineVars>>

SpecBatch == InitBatch /\ [][AnalyzeBatch]_vars

\* a sequence of calls of analyze_sentiment on one analyzer
InitCalls ==
    /\ pc = "calls"
    /\ NoStore
    /\ history = <<>>
    /\ library \in Libraries
    /\ punkt_available \in BOOLEAN
    /\ texts = <<>>
    /\ text = <<>>
    /\ textblob_model = None
    /\ vader_model = None
    /\ textblob_result = None
    /\ vader_result = None
    /\ keyword_result = None
    /\ result = None
    /\ calls = <<>>
    /\ NoPipeline

\* one more call, on any text
AnalyzeSentimentAgain ==
    /\ pc = "calls"
    /\ Len(history) < MaxCalls
    /\ \E t \in BatchItems :
           \E r \in {AnalyzeWith(library, t)} :
               /\ text' = t
               /\ result' = r
               /\ history' = Append(history, [text |-> t, returns |-> r])
    /\ UNCHANGED <<storeVars, pc, textblob_model, vader_model, textblob_result, vader_result,
                   keyword_result, calls, punkt_available, texts, library, pipelineVars>>

SpecCalls == InitCalls /\ [][AnalyzeSentimentAgain]_vars

\* _preprocess_text on a raw text
InitPreprocess ==
    /\ pc = "_preprocess_text"
    /\ NoStore
    /\ text \in RawTexts
    /\ textblob_model = None
    /\ vader_model = None
    /\ textblob_result = None
    /\ vader_result = None
    /\ keyword_result = None
    /\ result = None
    /\ calls = <<>>
    /\ punkt_available = TRUE
    /\ NoBatch
    /\ NoPipeline

PreprocessText ==
    /\ pc = "_preprocess_text"
    /\ result' = _preprocess_text(text)
    /\ pc' = "done"
    /\ UNCHANGED <<storeVars, analysisVars, calls, punkt_available, batchVars, pipelineVars>>

SpecPreprocess == InitPreprocess /\ [][PreprocessText]_vars

\* _prepare_text_for_analysis on an article
InitPrepare ==
    /\ pc = "_prepare_text_for_analysis"
    /\ NoStore
    /\ article \in PreparedArticles
    /\ event = None
    /\ articles = <<>>
    /\ faults = {}
    /\ db = None
    /\ result = None
    /\ calls = <<>>
    /\ NoAnalysis
    /\ NoBatch

PrepareTextForAnalysis ==
    /\ pc = "_prepare_text_for_analysis"
    /\ result' = _prepare_text_for_analysis(article)
    /\ pc' = "done"
    /\ UNCHANGED <<storeVars, analysisVars, calls, punkt_available, batchVars, pipelineVars>>

SpecPrepare == InitPrepare /\ [][PrepareTextForAnalysis]_vars

\* _determine_company_id on an article, for the companies that were set up
InitLookup ==
    /\ pc = "_determine_company_id"
    /\ NoStore
    /\ article \in LookupArticles
    /\ faults \in SUBSET {Call("insert_company", 1), Call("insert_company", 2)}
    /\ event = None
    /\ articles = <<>>
    /\ db = None
    /\ result = None
    /\ calls = <<>>
    /\ NoAnalysis
    /\ NoBatch

DetermineCompanyId ==
    /\ pc = "_determine_company_id"
    /\ result' = _determine_company_id(article, _setup_companies(faults))
    /\ pc' = "done"
    /\ UNCHANGED <<storeVars, analysisVars, calls, punkt_available, batchVars, pipelineVars>>

SpecLookup == InitLookup /\ [][DetermineCompanyId]_vars

\* _process_articles on the articles of a run
InitProcess ==
    /\ pc = "_process_articles"
    /\ NoStore
    /\ articles \in SeqsUpTo(FetchedArticles, MaxArticles)
    /\ faults \in SUBSET (ArticleFaults(articles) \cup {Call("insert_company", 2)})
    /\ punkt_available \in BOOLEAN
    /\ article = None
    /\ event = None
    /\ db = None
    /\ text = <<>>
    /\ textblob_model = None
    /\ vader_model = None
    /\ textblob_result = None
    /\ vader_result = None
    /\ keyword_result = None
    /\ result = None
    /\ calls = <<>>
    /\ NoBatch

ProcessArticles ==
    /\ pc = "_process_articles"
    /\ \E r \in {_process_articles(articles, _setup_companies(faults), faults, <<>>)} :
           /\ result' = r.processed_count
           /\ calls' = r.calls
    /\ pc' = "done"
    /\ UNCHANGED <<storeVars, analysisVars, punkt_available, batchVars, pipelineVars>>

SpecProcess == InitProcess /\ [][ProcessArticles]_vars

\* process_pipeline for an event type
InitPipeline ==
    /\ pc = "process_pipeline"
    /\ NoStore
    /\ event \in EventTypes
    /\ articles \in SeqsUpTo(FetchedArticles, MaxArticles)
    /\ faults \in SUBSET PipelineFaults
    /\ db \in Databases
    /\ article = None
    /\ result = None
    /\ calls = <<>>
    /\ NoAnalysis
    /\ NoBatch

ProcessPipeline ==
    /\ pc = "process_pipeline"
    /\ \E r \in {process_pipeline(event, articles, faults, db, <<>>)} :
           /\ result' = r.returns
           /\ calls' = r.calls
           /\ db' = r.db
    /\ pc' = "done"
    /\ UNCHANGED <<storeVars, analysisVars, punkt_available, batchVars, article, event, articles, faults>>

SpecPipeline == InitPipeline /\ [][ProcessPipeline]_vars

\* lambda_handler on an event
InitLambda ==
    /\ pc = "lambda_handler"
    /\ NoStore
    /\ event \in LambdaEvents
    /\ articles \in SeqsUpTo(FetchedArticles, MaxArticles)
    /\ faults \in SUBSET LambdaFaults
    /\ db \in Databases
    /\ article = None
    /\ result = None
    /\ calls = <<>>
    /\ NoAnalysis
    /\ NoBatch

LambdaHandler ==
    /\ pc = "lambda_handler"
    /\ \E r \in {lambda_handler(event, articles, faults, db)} :
           /\ result' = r.returns
           /\ calls' = r.calls
           /\ db' = r.db
    /\ pc' = "done"
    /\ UNCHANGED <<storeVars, analysisVars, punkt_available, batchVars, article, event, articles, faults>>

SpecLambda == InitLambda /\ [][LambdaHandler]_vars

Init ==
    /\ pc = "analyze"
    /\ NoStore
    /\ text \in Texts
    /\ textblob_model \in TextBlobModels
    /\ vader_model \in VaderModels
    /\ textblob_result = None
    /\ vader_result = None
    /\ keyword_result = None
    /\ result = None
    /\ calls = <<>>
    /\ punkt_available \in BOOLEAN
    /\ NoBatch
    /\ NoPipeline

AnalyzeSentiment ==
    /\ pc = "analyze"
    /\ \E r \in {analyze_sentiment(text, textblob_model, vader_model)} :
           /\ result' = r.returns
           /\ textblob_result' = r.textblob_result
           /\ vader_result' = r.vader_result
           /\ keyword_result' = r.keyword_result
           /\ calls' = r.calls
    /\ pc' = "done"
    /\ UNCHANGED <<storeVars, text, textblob_model, vader_model, punkt_available, batchVars,
                   pipelineVars>>

Next == AnalyzeSentiment

Spec == Init /\ [][Next]_vars

\* fetch_financial_news for the tracked companies
InitFetch ==
    /\ pc = "fetch_financial_news"
    /\ responses \in [DOMAIN tracked_companies -> Answers]
    /\ callers = <<>>
    /\ result = None
    /\ calls = <<>>
    /\ NoAnalysis
    /\ NoBatch
    /\ NoPipeline

FetchFinancialNews ==
    /\ pc = "fetch_financial_news"
    /\ result' = [returns |-> fetch_financial_news(
                                  [k \in DOMAIN tracked_companies |-> tracked_companies[k].name],
                                  responses)]
    /\ pc' = "done"
    /\ UNCHANGED <<storeVars, analysisVars, calls, punkt_available, batchVars, pipelineVars>>

SpecFetch == InitFetch /\ [][FetchFinancialNews]_vars

\* sequential calls of insert_company and insert_article on one database
InitStore ==
    /\ pc = "DatabaseManager"
    /\ NoStore
    /\ db \in Schemas
    /\ article = None
    /\ event = None
    /\ articles = <<>>
    /\ faults = {}
    /\ result = None
    /\ calls = <<>>
    /\ NoAnalysis
    /\ NoBatch

\* the call returns or raises, and is recorded with the statements it executed
Called(op, key, done) ==
    /\ Len(calls) < MaxStoreCalls
    /\ result' = done.returns
    /\ db' = done.db
    /\ calls' = Append(calls, [op |-> op, key |-> key, statements |-> done.statements])
    /\ UNCHANGED <<pc, storeVars, analysisVars, punkt_available, batchVars,
                   article, event, articles, faults>>

InsertCompany ==
    \E k \in DOMAIN tracked_companies, fails \in BOOLEAN :
        Called("insert_company", tracked_companies[k].name,
               insert_company(db, tracked_companies[k].name, fails))

InsertArticle ==
    \E url \in Urls, k \in DOMAIN tracked_companies, fails \in BOOLEAN :
        Called("insert_article", url, insert_article(db, url, k, fails))

NextStore == InsertCompany \/ InsertArticle

SpecStore == InitStore /\ [][NextStore]_vars

\* runs of process_pipeline, one after the other, on one database
InitRuns ==
    /\ pc = "process_pipeline"
    /\ responses = <<>>
    /\ callers = <<>>
    /\ db \in RunSchemas
    /\ article = None
    /\ event = None
    /\ articles = <<>>
    /\ faults = {}
    /\ result = None
    /\ calls = <<>>
    /\ NoAnalysis
    /\ NoBatch

\* a run for the articles delivered, with the calls that raise in it: the
\* inserts that the pipeline saw return are those the database lets return
RunPipeline ==
    /\ pc = "process_pipeline"
    /\ Len(responses) < MaxRuns
    /\ \E event_type \in EventTypes, arts \in SeqsUpTo(DeliveredArticles, MaxArticles) :
         \E fs \in SUBSET ScoreFaults(arts) :
           \E run \in {process_pipeline(event_type, arts, fs, db, <<>>)} :
             \E stored \in {StoreRun(run.calls, arts, fs, run.db)} :
                /\ stored.agrees
                /\ db' = stored.db
                /\ result' = run.returns
                /\ calls' = run.calls
                /\ responses' = Append(responses, arts)
    /\ UNCHANGED <<pc, callers, analysisVars, punkt_available, batchVars,
                   article, event, articles, faults>>

SpecRuns == InitRuns /\ [][RunPipeline]_vars

\* two callers of insert_company or of insert_article on one database: every
\* statement runs on a connection of its own, and the statements of the two
\* callers interleave
InitRace ==
    /\ pc = "concurrent"
    /\ responses = <<>>
    /\ callers \in ConcurrentCalls
    /\ db \in SharedDatabases
    /\ article = None
    /\ event = None
    /\ articles = <<>>
    /\ faults = {}
    /\ result = None
    /\ calls = <<>>
    /\ NoAnalysis
    /\ NoBatch

\* get_company_id or article_exists: the caller returns the id of the company
\* found, goes on to select the id of the article found, or goes on to insert
CheckExists(c) ==
    /\ callers[c].pc = "check"
    /\ LET found == FetchOne(db[TableOf(callers[c].op)], ColumnOf(callers[c].op),
                             callers[c].key)
       IN  callers' =
               [callers EXCEPT ![c] =
                   IF found = None THEN [@ EXCEPT !.pc = "insert"]
                   ELSE IF @.op = "insert_company"
                   THEN [@ EXCEPT !.pc = "done", !.returns = found]
                   ELSE [@ EXCEPT !.pc = "select"]]
    /\ calls' = Append(calls, [op |-> "SELECT", at |-> c])
    /\ UNCHANGED <<pc, responses, analysisVars, result, punkt_available, batchVars,
                   pipelineVars>>

\* get_article_id_by_url
SelectId(c) ==
    /\ callers[c].pc = "select"
    /\ callers' = [callers EXCEPT ![c] =
                      [@ EXCEPT !.pc = "done",
                                !.returns = get_article_id_by_url(db, callers[c].key)]]
    /\ calls' = Append(calls, [op |-> "SELECT", at |-> c])
    /\ UNCHANGED <<pc, responses, analysisVars, result, punkt_available, batchVars,
                   pipelineVars>>

\* cursor.execute(insert_query) and conn.commit(), or the rollback and raise
InsertRow(c) ==
    /\ callers[c].pc = "insert"
    /\ \E done \in {Insert(db, TableOf(callers[c].op), RowOf(callers[c].op, callers[c].key),
                           ColumnOf(callers[c].op), FALSE)} :
           /\ db' = done.db
           /\ callers' = [callers EXCEPT ![c] = [@ EXCEPT !.pc = "done",
                                                          !.returns = done.returns]]
    /\ calls' = Append(calls, [op |-> "INSERT", at |-> c])
    /\ UNCHANGED <<pc, responses, analysisVars, result, punkt_available, batchVars,
                   article, event, articles, faults>>

NextRace == \E c \in DOMAIN callers : CheckExists(c) \/ SelectId(c) \/ InsertRow(c)

SpecRace == InitRace /\ [][NextRace]_vars

-----------------------------------------------------------------------------
(* Properties of the Consensus Combiner, under SpecCombine *)

Inputs ==
    [textblob |-> textblob_result, vader |-> vader_result,
     financial_keywords |-> keyword_result]

Methods == {"textblob", "vader", "financial_keywords"}

\* the methods whose score is not null
Active == {m \in Methods : Inputs[m].score # None}

\* weight x value of a method, nothing for a method that is not active
Term(m, value) == IF m \in Active THEN RatMul(weights[m], value) ELSE Zero

SumOverActive(f) ==
    RatAdd(Term("textblob", f["textblob"]),
           RatAdd(Term("vader", f["vader"]),
                  Term("financial_keywords", f["financial_keywords"])))

ActiveWeight == SumOverActive([m \in Methods |-> One])

\* the accumulated vote of a label
Vote(l) == SumOverActive([m \in Methods |-> IF Inputs[m].label = l THEN One ELSE Zero])

\* the position of a label in the order positive, negative, neutral
Rank(l) == CHOOSE i \in 1..Len(LabelOrder) : LabelOrder[i] = l

\* the score and the label of a returned result, of either shape
FinalScore(r) == IF "sentiment_score" \in DOMAIN r THEN r.sentiment_score ELSE r.score
FinalLabel(r) == IF "sentiment_label" \in DOMAIN r THEN r.sentiment_label ELSE r.label

\* C1: with at least one active method, the final score is the sum of
\* weight x score over exactly the active methods divided by the sum of their
\* weights, and the final confidence is the same weight-normalised sum of
\* their confidences.
C1_WeightedAverage ==
    (pc = "done" /\ Active # {}) =>
        /\ "sentiment_score" \in DOMAIN result
        /\ result.sentiment_score =
              RatDiv(SumOverActive([m \in Methods |-> Inputs[m].score]), ActiveWeight)
        /\ result.confidence =
              RatDiv(SumOverActive([m \in Methods |-> Inputs[m].confidence]), ActiveWeight)

\* a call with one method inactive whose average differs from the
\* sum over all three weights
C1_Witness ==
    /\ pc = "done"
    /\ Active = {"textblob", "financial_keywords"}
    /\ textblob_result.score = One
    /\ keyword_result.score = Zero
    /\ result.sentiment_score = Rat(2, 3)

\* C2: the final label has the highest accumulated vote, each active method
\* voting its weight for its own label, and among labels with the highest
\* vote it is the first of positive, negative, neutral; the labels
\* (positive, positive, negative) give positive.
C2_LabelVote ==
    (pc = "done" /\ Active # {}) =>
        /\ \A l \in Labels :
              /\ RatLe(Vote(l), Vote(FinalLabel(result)))
              /\ Vote(l) = Vote(FinalLabel(result)) => Rank(FinalLabel(result)) <= Rank(l)
        /\ (/\ Active = Methods
            /\ textblob_result.label = "positive"
            /\ vader_result.label = "positive"
            /\ keyword_result.label = "negative") => FinalLabel(result) = "positive"

\* a tie between positive and negative that positive wins, against the sign
\* of the merged score
C2_Witness ==
    /\ pc = "done"
    /\ Active = {"textblob", "vader"}
    /\ textblob_result.label = "negative"
    /\ vader_result.label = "positive"
    /\ result.sentiment_label = "positive"
    /\ RatLt(result.sentiment_score, Zero)

\* C5: the method results given to the combiner have scores in [-1,1] or
\* null and confidences in [0,1], and the combined result then has its
\* final score in [-1,1] and its final confidence in [0,1].
C5_ResultInRange ==
    pc = "done" =>
        /\ RatLe(Rat(-1, 1), FinalScore(result)) /\ RatLe(FinalScore(result), One)
        /\ RatLe(Zero, result.confidence) /\ RatLe(result.confidence, One)

\* all three methods active at the ends of the range
C5_Witness ==
    /\ pc = "done"
    /\ Active = Methods
    /\ \A m \in Methods : Inputs[m].score = One /\ Inputs[m].confidence = One
    /\ result.sentiment_score = One
    /\ result.confidence = One

\* C6: when all three scores are null the combiner returns the sentinel of
\* score 0.0, confidence 0.0, label neutral, tagged "combined".
C6_AllInactive ==
    (pc = "done" /\ Active = {}) =>
        result = [method |-> "combined", score |-> Rat(0, 1), confidence |-> Rat(0, 1),
                  label |-> "neutral"]

C6_Witness ==
    /\ pc = "done"
    /\ \A m \in Methods : Inputs[m].score = None
    /\ result.method = "combined"

\* the label of every active method follows the sign of its score: a
\* positive label has a score >= 0 and a negative label a score <= 0
LabelsFollowScores ==
    \A m \in Active :
        /\ Inputs[m].label = "positive" => RatLe(Zero, Inputs[m].score)
        /\ Inputs[m].label = "negative" => RatLe(Inputs[m].score, Zero)

\* the label agrees in sign with the score
SignAgrees(label, score) ==
    /\ label = "positive" => RatLe(Zero, score)
    /\ label = "negative" => RatLe(score, Zero)

\* C27 as stated: for method results whose labels follow the signs of their
\* scores, the final label of the combined result agrees in sign with its
\* final score.
C27_LabelAgreesWithScore ==
    (pc = "done" /\ LabelsFollowScores) =>
        SignAgrees(FinalLabel(result), FinalScore(result))

\* C27 as amended: the final label agrees in sign with the final score when
\* the active methods all carry one label, which is then the final label.
C27_UnanimousLabelAgrees ==
    (pc = "done" /\ LabelsFollowScores /\ Active # {}) =>
        \A l \in Labels :
            (\A m \in Active : Inputs[m].label = l) =>
                /\ FinalLabel(result) = l
                /\ SignAgrees(l, FinalScore(result))

\* three active methods that all say negative, two of them with a score below 0
C27_Witness ==
    /\ pc = "done"
    /\ Active = Methods
    /\ \A m \in Methods : Inputs[m].label = "negative"
    /\ textblob_result.score = Rat(-1, 1)
    /\ vader_result.score = Rat(-1, 2)
    /\ keyword_result.score = Zero
    /\ result.sentiment_label = "negative"
    /\ result.sentiment_score = Rat(-3, 5)

-----------------------------------------------------------------------------
(* Properties of analyze_sentiment, under Spec *)

\* the text is empty or has whitespace only
OnlyWhitespace(t) == \A i \in 1..Len(t) : t[i] \in Whitespace

\* C3: on empty or whitespace-only text analyze_sentiment returns score 0.0,
\* confidence 0.0 and label neutral, having invoked neither the normalizer
\* nor a scorer.
C3_BlankShortCircuit ==
    (pc = "done" /\ OnlyWhitespace(text)) =>
        /\ {"score", "confidence", "label"} \subseteq DOMAIN result
        /\ result.score = Rat(0, 1)
        /\ result.confidence = Rat(0, 1)
        /\ result.label = "neutral"
        /\ calls = <<>>
        /\ textblob_result = None /\ vader_result = None /\ keyword_result = None

\* a call on a text of whitespace only
C3_Witness ==
    /\ pc = "done"
    /\ text # <<>>
    /\ OnlyWhitespace(text)
    /\ result.label = "neutral"

\* C4 as stated: every result of analyze_sentiment, also for empty and
\* whitespace-only text, carries the method tag "combined".
C4_AlwaysCombined == (pc = "done" /\ ~IsRaised(result)) => result.method = "combined"

\* C4 as amended: the result for a text that is not blank carries the method
\* tag "combined"; the result for empty or whitespace-only text carries the
\* tag "unknown".
C4_CombinedUnlessBlank ==
    (pc = "done" /\ ~IsRaised(result)) =>
        result.method = IF OnlyWhitespace(text) THEN "unknown" ELSE "combined"

\* a call on a text that is not blank but is empty once normalized
C4_Witness ==
    /\ pc = "done"
    /\ ~OnlyWhitespace(text)
    /\ _preprocess_text(text) = <<>>
    /\ ~IsRaised(result)
    /\ result.method = "combined"
    /\ calls # <<>>

\* C11 as stated: analyze_sentiment never raises, for any text; a failure
\* inside any scorer, the tokenization of the keyword scorer included, is
\* absorbed and the call returns a result.
C11_NeverRaises == pc = "done" => ~IsRaised(result)

\* the sentinel of a scorer: score 0.0, confidence 0.0, label neutral
Sentinel(method) ==
    [method |-> method, score |-> Rat(0, 1), confidence |-> Rat(0, 1), label |-> "neutral"]

\* the combiner was invoked
Combined == calls # <<>> /\ calls[Len(calls)] = "_combine_sentiment_results"

\* C12: when the polarity model or the valence model raises, the scorer
\* returns the sentinel tagged with its own method name, the exception of the
\* model is not the outcome of the call, and a combiner that is invoked
\* receives three method results.
C12_ModelFailureAbsorbed ==
    (pc = "done" /\ ~OnlyWhitespace(text)) =>
        /\ textblob_model.raises => textblob_result = Sentinel("textblob")
        /\ vader_model.raises => vader_result = Sentinel("vader")
        /\ IsRaised(result) => (~punkt_available /\ result.raised = "LookupError")
        /\ Combined =>
               /\ textblob_result.method = "textblob"
               /\ vader_result.method = "vader"
               /\ keyword_result.method = "financial_keywords"
               /\ "individual_results" \in DOMAIN result =>
                      result.individual_results =
                          [textblob |-> textblob_result, vader |-> vader_result,
                           financial_keywords |-> keyword_result]

\* a call in which both models raise and the combiner is invoked
C12_Witness ==
    /\ pc = "done"
    /\ textblob_model.raises
    /\ vader_model.raises
    /\ Combined
    /\ result.individual_results.textblob = Sentinel("textblob")
    /\ result.individual_results.vader = Sentinel("vader")

\* the sum of the three values, each times the weight of its method
WeightedSum(tb, vd, kw) ==
    RatAdd(RatMul(Rat(4, 10), tb), RatAdd(RatMul(Rat(4, 10), vd), RatMul(Rat(2, 10), kw)))

\* C28: in a call of analyze_sentiment on a text that is not blank, no
\* scorer yields a null score, so that the combiner divides by the total
\* weight 0.4 + 0.4 + 0.2: the final score and confidence are the weighted
\* sums over all three methods, a scorer that absorbed a failure and a
\* keyword scorer without hits counting with score 0.0 and confidence 0.0.
C28_AllMethodsActive ==
    (pc = "done" /\ ~OnlyWhitespace(text) /\ ~IsRaised(result)) =>
        /\ textblob_result.score # None
        /\ vader_result.score # None
        /\ keyword_result.score # None
        /\ textblob_model.raises => textblob_result.score = Rat(0, 1)
        /\ vader_model.raises => vader_result.score = Rat(0, 1)
        /\ result.sentiment_score =
               WeightedSum(textblob_result.score, vader_result.score, keyword_result.score)
        /\ result.confidence =
               WeightedSum(textblob_result.confidence, vader_result.confidence,
                           keyword_result.confidence)

\* the polarity model raises, the keyword scorer has no hit, and the final
\* score is 0.4 times the score of the valence scorer
C28_Witness ==
    /\ pc = "done"
    /\ text = <<"the", " ", "outlook">>
    /\ textblob_model.raises
    /\ ~vader_model.raises
    /\ vader_model.compound = Rat(-1, 2)
    /\ keyword_result = Sentinel("financial_keywords")
    /\ ~IsRaised(result)
    /\ result.sentiment_score = Rat(-1, 5)

-----------------------------------------------------------------------------
(* Properties of the Keyword Scorer, under SpecKeywords *)

\* the tokens of the text, before and after the filter
AllTokens == word_tokenize(Lower(text))
KeptTokens == FilterTokens(AllTokens)

\* the tokens of a sequence that are terms of a lexicon
HitsIn(tokens, lexicon) == {i \in 1..Len(tokens) : TokenIn(tokens[i], lexicon)}
CountIn(tokens, lexicon) == Cardinality(HitsIn(tokens, lexicon))
PositiveHits == CountIn(KeptTokens, financial_keywords.positive)
NegativeHits == CountIn(KeptTokens, financial_keywords.negative)

\* the words that were counted
WordsIn(tokens, lexicon) == {tokens[i][1] : i \in HitsIn(tokens, lexicon)}
HitWords(lexicon) == WordsIn(KeptTokens, lexicon)

\* with a hit, the result r is the one the formulas give for p positive and
\* n negative hits
FollowsFormula(r, p, n) ==
    p + n > 0 =>
        /\ r.score = Rat(p - n, p + n)
        /\ r.confidence = IF p + n >= 10 THEN One ELSE Rat(p + n, 10)
        /\ r.label = "positive" <=> 5 * (p - n) > p + n
        /\ r.label = "negative" <=> 5 * (p - n) < -(p + n)
        /\ r.label \in Labels
        /\ RatLe(Rat(-1, 1), r.score) /\ RatLe(r.score, One)
        /\ RatLt(Zero, r.confidence) /\ RatLe(r.confidence, One)

\* C7: with at least one hit the keyword scorer returns score =
\* (positive_hits - negative_hits) / total_hits, confidence =
\* min(total_hits / 10, 1.0), label positive iff score > 0.2 and negative iff
\* score < -0.2; the score is in [-1,1], the confidence in (0,1] and 1.0 from
\* 10 hits on.
C7_KeywordFormula == pc = "done" => FollowsFormula(result, PositiveHits, NegativeHits)

\* more than ten hits, of both lexicons, with a neutral score
C7_Witness ==
    /\ pc = "done"
    /\ Len(text) > 20
    /\ PositiveHits + NegativeHits > 10
    /\ PositiveHits = NegativeHits + 1
    /\ result.label = "neutral"
    /\ result.confidence = One

\* C8: when no token of the text is a term of either lexicon, the result is
\* exactly the sentinel: method financial_keywords, score 0.0, confidence
\* 0.0, label neutral.
C8_ZeroHitSentinel ==
    (/\ pc = "done"
     /\ CountIn(AllTokens, financial_keywords.positive \cup financial_keywords.negative) = 0)
    => result = [method |-> "financial_keywords", score |-> Rat(0, 1),
                 confidence |-> Rat(0, 1), label |-> "neutral"]

\* a text with a word that is not a stop word and no term of a lexicon
C8_Witness ==
    /\ pc = "done"
    /\ <<"outlook">> \in ItemsOf(KeptTokens)
    /\ CountIn(AllTokens, financial_keywords.positive \cup financial_keywords.negative) = 0
    /\ result.method = "financial_keywords"

\* C9 as stated: "missed earnings, weak outlook, significant risk" counts
\* three negative hits, "miss", "weak" and "risk", and no positive hit, and
\* scores -1.0.
C9_ThreeNegativeHits ==
    (pc = "done" /\ text = NegativeScenario) =>
        /\ result.negative_keywords = 3
        /\ result.positive_keywords = 0
        /\ result.score = Rat(-1, 1)

\* C9 as amended: the text counts two negative hits, "weak" and "risk"
\* ("missed" is no term of the lexicon), and no positive hit, and scores -1.0.
C9_TwoNegativeHits ==
    (pc = "done" /\ text = NegativeScenario) =>
        /\ result.negative_keywords = 2
        /\ result.positive_keywords = 0
        /\ HitWords(financial_keywords.negative) = {"weak", "risk"}
        /\ result.score = Rat(-1, 1)

C9_Witness ==
    /\ pc = "done"
    /\ text = NegativeScenario
    /\ result.label = "negative"

\* C10 as stated: "record profits and strong growth, investors optimistic"
\* counts exactly three positive hits, for "profit", "growth" and "strong",
\* and no negative hit, and scores 1.0 with confidence 0.3.
C10_HitsProfitGrowthStrong ==
    (pc = "done" /\ text = PositiveScenario) =>
        /\ result.positive_keywords = 3
        /\ HitWords(financial_keywords.positive) = {"profit", "growth", "strong"}
        /\ result.negative_keywords = 0
        /\ result.score = One
        /\ result.confidence = Rat(3, 10)

\* C10 as amended: the text counts exactly three positive hits, for "record",
\* "strong" and "growth" ("profits" is no term of the lexicon), and no
\* negative hit, and scores 1.0 with confidence 0.3.
C10_HitsRecordStrongGrowth ==
    (pc = "done" /\ text = PositiveScenario) =>
        /\ result.positive_keywords = 3
        /\ HitWords(financial_keywords.positive) = {"record", "strong", "growth"}
        /\ result.negative_keywords = 0
        /\ result.score = One
        /\ result.confidence = Rat(3, 10)

C10_Witness ==
    /\ pc = "done"
    /\ text = PositiveScenario
    /\ result.label = "positive"

\* C30: every term of the two lexicons is countable: the text that is this
\* one term gives exactly one keyword hit, the removal of the stop words
\* discarding no lexicon term.
C30_EveryTermCountable ==
    (pc = "done" /\ Len(text) = 1
        /\ text[1] \in financial_keywords.positive \cup financial_keywords.negative) =>
        /\ "total_keywords" \in DOMAIN result
        /\ result.total_keywords = 1

-----------------------------------------------------------------------------
(* Properties of analyze_batch, under SpecBatch *)

\* the analysis of the text at position i of the batch, on its own
Alone(i) == AnalyzeWith(library, texts[i])

\* C13: analyze_batch returns one result for each text, in the order of the
\* texts; result i carries the index i of its text in the list and is
\* otherwise the result that analyze_sentiment returns for that text alone.
C13_BatchIsPointwise ==
    pc = "done" =>
        /\ Len(result) = Len(texts)
        /\ \A i \in 1..Len(texts) :
               /\ result[i].text_index = i - 1
               /\ ~IsRaised(Alone(i)) =>
                      /\ DOMAIN result[i] = DOMAIN Alone(i) \cup {"text_index"}
                      /\ \A f \in DOMAIN Alone(i) : result[i][f] = Alone(i)[f]

\* a batch of three texts with three different results
C13_Witness ==
    /\ pc = "done"
    /\ Len(texts) = 3
    /\ result[1].method = "combined" /\ result[1].sentiment_label = "positive"
    /\ result[2].method = "unknown"
    /\ result[3].method = "combined" /\ result[3].sentiment_label = "negative"

\* C14: a text whose analysis raises does not end the batch: its position
\* holds score 0.0, confidence 0.0, label neutral, the method tag "error" and
\* the text of the error, and every other position holds what it holds
\* without the failure.
C14_FailureIsLocal ==
    pc = "done" =>
        /\ DOMAIN result = DOMAIN texts
        /\ \A i \in 1..Len(texts) :
               IF IsRaised(Alone(i))
               THEN result[i] = [score |-> Rat(0, 1), confidence |-> Rat(0, 1),
                                 label |-> "neutral", method |-> "error",
                                 text_index |-> i - 1, error |-> Alone(i).message]
               ELSE result[i].method # "error" /\ "error" \notin DOMAIN result[i]

\* a batch whose first text fails and whose later texts are analyzed
C14_Witness ==
    /\ pc = "done"
    /\ Len(texts) = 3
    /\ result[1].method = "error"
    /\ result[2].method = "unknown"
    /\ result[3].method = "error"

-----------------------------------------------------------------------------
(* Properties of repeated calls, under SpecCalls *)

-----------------------------------------------------------------------------
(* Properties of _preprocess_text, under SpecPreprocess *)

\* C16 as stated: the text _preprocess_text returns has no whitespace at
\* either end and nowhere two whitespace characters in a row, also where a
\* removed special character stood between two spaces; the empty text is
\* returned unchanged.
C16_SingleSpaced ==
    pc = "done" =>
        /\ result # <<>> => (result[1] \notin Whitespace /\ result[Len(result)] \notin Whitespace)
        /\ \A i \in 1..(Len(result) - 1) :
               ~(result[i] \in Whitespace /\ result[i + 1] \in Whitespace)
        /\ text = <<>> => result = <<>>

-----------------------------------------------------------------------------
(* Properties of _prepare_text_for_analysis, under SpecPrepare *)

\* the field is present and holds a string that is not empty
Present(field) ==
    /\ field \in DOMAIN article
    /\ article[field] # None
    /\ article[field].str # <<>>

\* part is found in the prepared text at the offset, followed by one space
\* unless it ends the text
PartAt(part, offset, last) ==
    /\ Len(result) >= offset + Len(part) + (IF last THEN 0 ELSE 1)
    /\ \A i \in 1..Len(part) : result[offset + i] = part[i]
    /\ IF last THEN Len(result) = offset + Len(part)
       ELSE result[offset + Len(part) + 1] = " "

\* the content as the prepared text holds it
ExpectedContent ==
    LET content == article.content.str
    IN  IF Len(content) <= 2000 THEN content
        ELSE [i \in 1..2003 |-> IF i <= 2000 THEN content[i] ELSE "."]

\* C17: the prepared text is the title twice, the description and the
\* content, in that order, joined by single spaces, absent and empty fields
\* skipped; a content of more than 2000 characters is replaced by its first
\* 2000 characters followed by "...", a shorter one is unchanged.
C17_PreparedText ==
    pc = "done" =>
        LET title == IF Present("title") THEN article.title.str ELSE <<>>
            description == IF Present("description") THEN article.description.str ELSE <<>>
            content == IF Present("content") THEN ExpectedContent ELSE <<>>
            afterTitle == IF Present("title") THEN 2 * (Len(title) + 1) ELSE 0
            afterDescription ==
                afterTitle + (IF Present("description") THEN Len(description) + 1 ELSE 0)
        IN  /\ Present("title") =>
                   /\ PartAt(title, 0, FALSE)
                   /\ PartAt(title, Len(title) + 1,
                             ~Present("description") /\ ~Present("content"))
            /\ Present("description") =>
                   PartAt(description, afterTitle, ~Present("content"))
            /\ Present("content") => PartAt(content, afterDescription, TRUE)
            /\ (~Present("title") /\ ~Present("description") /\ ~Present("content")) =>
                   result = <<>>

\* an article with all three fields whose content is one character too long
C17_Witness ==
    /\ pc = "done"
    /\ Present("title") /\ Present("description") /\ Present("content")
    /\ Len(article.content.str) = 2001
    /\ Len(result) = 2 * 3 + 2 + 2003
    /\ SubSeq(result, Len(result) - 3, Len(result)) = <<"c", ".", ".", ".">>

-----------------------------------------------------------------------------
(* Properties of _process_articles, under SpecProcess *)

\* the call was made and returned
Completed(op, i) == \E k \in DOMAIN calls : calls[k] = [op |-> op, at |-> i]

\* C18: an exception while one article is handled does not leave
\* _process_articles and does not end the loop: every article is handled,
\* and the count returned is the number of articles for which insert_article
\* and insert_sentiment_score both completed.
C18_EveryArticleHandled ==
    pc = "done" =>
        /\ result \in 0..Len(articles)
        /\ \A i \in DOMAIN articles : Completed("_determine_company_id", i)
        /\ result = Cardinality({i \in DOMAIN articles :
                                    /\ Completed("insert_article", i)
                                    /\ Completed("insert_sentiment_score", i)})

\* a run whose first article is stored and then fails and whose second
\* article is stored and scored
C18_Witness ==
    /\ pc = "done"
    /\ Len(articles) = 2
    /\ Completed("insert_article", 1)
    /\ ~Completed("insert_sentiment_score", 1)
    /\ Completed("insert_sentiment_score", 2)
    /\ result = 1

-----------------------------------------------------------------------------
(* Properties of process_pipeline, under SpecPipeline *)

\* the positions of the trace at which cleanup_old_articles is called
Cleanups == {k \in DOMAIN calls : calls[k].op = "cleanup_old_articles"}

\* at least one article was fetched
Fetched == [op |-> "fetch_financial_news", at |-> 0] \notin faults /\ articles # <<>>

\* the cleanup is called once, with days_to_keep = 90, after every article
\* was handled
CleanupOnceAtEnd ==
    /\ Cardinality(Cleanups) = 1
    /\ \A k \in Cleanups :
           /\ calls[k].days_to_keep = 90
           /\ \A i \in DOMAIN articles :
                  \E j \in 1..(k - 1) : calls[j] = [op |-> "_determine_company_id", at |-> i]
           /\ \A j \in (k + 1)..Len(calls) : calls[j].op = "cleanup_old_articles"

\* C19 as stated: for the event type "maintenance" with at least one article
\* fetched, cleanup_old_articles(days_to_keep=90) is called exactly once,
\* after all articles were processed, and the result reports
\* old_articles_deleted; for every other event type it is never called.
C19_CleanupReported ==
    pc = "done" =>
        /\ (event = "maintenance" /\ Fetched) =>
               (CleanupOnceAtEnd /\ "old_articles_deleted" \in DOMAIN result)
        /\ event # "maintenance" => Cleanups = {}

\* C19 as amended: the result reports old_articles_deleted when the cleanup
\* call returns; when the call raises, the result has no such entry, reports
\* the error and has success false.
C19_CleanupReportedUnlessRaised ==
    pc = "done" =>
        /\ (event = "maintenance" /\ Fetched) =>
               /\ CleanupOnceAtEnd
               /\ IF [op |-> "cleanup_old_articles", at |-> 0] \in faults
                  THEN /\ "old_articles_deleted" \notin DOMAIN result
                       /\ result.success = FALSE
                       /\ result.errors # <<>>
                  ELSE /\ "old_articles_deleted" \in DOMAIN result
                       /\ result.success = TRUE
        /\ event # "maintenance" => Cleanups = {}

\* a maintenance run that processes two articles and then deletes 25 old ones
C19_Witness ==
    /\ pc = "done"
    /\ event = "maintenance"
    /\ Len(articles) = 2
    /\ result.articles_processed = 2
    /\ Cleanups = {Len(calls)}
    /\ "old_articles_deleted" \in DOMAIN result
    /\ result.old_articles_deleted = 25

\* C26: every result of process_pipeline has success true or a non-empty
\* list of errors, also in the run in which no article was fetched.
C26_SuccessOrErrors ==
    pc = "done" => (result.success \/ result.errors # <<>>)

-----------------------------------------------------------------------------
(* Properties of lambda_handler, under SpecLambda *)

\* the runs of process_pipeline in the trace
PipelineRuns == {k \in DOMAIN calls : calls[k].op = "process_pipeline"}

\* the event type the source of the event stands for
SourceEventType ==
    IF /\ "source" \in DOMAIN event
       /\ event.source # None
       /\ \E k \in DOMAIN event.source.str : event.source.str[k] = "events"
    THEN "scheduled" ELSE "manual"

\* constructing the pipeline raised
ConstructionRaised ==
    /\ \E k \in DOMAIN calls : calls[k].op = "SentimentFinancePipeline"
    /\ [op |-> "SentimentFinancePipeline", at |-> 0] \in faults

\* the response for a run of the pipeline: one run, of the event type of
\* the source, whose results are the body
RanOnce ==
    /\ Cardinality(PipelineRuns) = 1
    /\ \A k \in PipelineRuns : calls[k].event_type = SourceEventType
    /\ result.body.json.event_type = SourceEventType
    /\ "success" \in DOMAIN result.body.json

\* C20 as stated: lambda_handler returns a response for every event; the
\* response has statusCode 500 and success false exactly when constructing
\* or running the pipeline raises; otherwise it has statusCode 200 and the
\* results of the one run of process_pipeline, of event type "scheduled"
\* when the source of the event contains "events" and "manual" otherwise.
C20_ErrorOnlyFromPipeline ==
    pc = "done" =>
        /\ ~IsRaised(result)
        /\ IF ConstructionRaised
           THEN result.statusCode = 500 /\ result.body.json.success = FALSE
           ELSE result.statusCode = 200 /\ RanOnce

\* C20 as amended: statusCode 500 with success false is returned exactly
\* when reading the source of the event, constructing or running the
\* pipeline raises.
C20_ErrorFromEventOrPipeline ==
    pc = "done" =>
        /\ ~IsRaised(result)
        /\ IF ConstructionRaised \/ ("source" \in DOMAIN event /\ event.source = None)
           THEN /\ result.statusCode = 500
                /\ result.body.json.success = FALSE
                /\ PipelineRuns = {}
           ELSE result.statusCode = 200 /\ RanOnce

\* an event of EventBridge whose run processes two articles
C20_Witness ==
    /\ pc = "done"
    /\ result.statusCode = 200
    /\ result.body.json.event_type = "scheduled"
    /\ result.body.json.articles_processed = 2
    /\ PipelineRuns # {}

-----------------------------------------------------------------------------
(* Properties of _determine_company_id, under SpecLookup *)

\* the companies that were set up, each with its name and id
SetUp == {tracked_companies[k] @@ [id |-> k] :
             k \in {j \in DOMAIN tracked_companies :
                       [op |-> "insert_company", at |-> j] \notin faults}}

\* the items of the lower-cased title, description and content
LookupText ==
    LET part(f) == IF f \in DOMAIN article THEN article[f].str ELSE <<>>
    IN  Lower(part("title") \o <<" ">> \o part("description") \o <<" ">> \o part("content"))

\* the word is in the text, whole or inside a longer word
WordOccurs(word) ==
    \E k \in DOMAIN LookupText :
        \/ LookupText[k] = word
        \/ \E side \in {"start", "end"} : <<word, LookupText[k], side>> \in WordParts

\* one of the words of the name of the company is in the text
NameOccurs(company) ==
    \/ WordOccurs(LowerItem(company.name[1]))
    \/ \E k \in 1..(Len(LookupText) - 1) :
           /\ LookupText[k] \in {"inc", "zinc"}
           /\ LookupText[k + 1] = "."

-----------------------------------------------------------------------------
(* Properties of fetch_financial_news, under SpecFetch *)

\* the standardized articles of the companies whose fetch returned, in the
\* order of the companies
RECURSIVE Delivered(_)
Delivered(k) ==
    IF k = 0 THEN <<>>
    ELSE LET r == _fetch_company_news(tracked_companies[k].name, responses[k])
         IN  Delivered(k - 1) \o (IF IsRaised(r) THEN <<>> ELSE r.processed)

\* the positions of the delivered articles that are the first of their URL
FirstOfUrl(all) ==
    {i \in DOMAIN all :
        /\ all[i].url.str # <<>>
        /\ \A j \in 1..(i - 1) : all[j].url # all[i].url}

\* C22: no two articles of the list fetch_financial_news returns share a
\* URL; the list is, in their order, the first article of each URL among
\* the articles of the companies whose fetch did not fail.
C22_FirstOccurrences ==
    pc = "done" =>
        LET all == Delivered(Len(tracked_companies))
            kept == FirstOfUrl(all)
            unique == result.returns
        IN  /\ \A i, j \in DOMAIN unique : unique[i].url = unique[j].url => i = j
            /\ Len(unique) = Cardinality(kept)
            /\ \A i \in kept : unique[Cardinality({j \in kept : j <= i})] = all[i]

\* the fetch of the first company fails, the second company delivers two
\* articles of one URL and one of another, and the first of each is returned
C22_Witness ==
    /\ pc = "done"
    /\ responses[1] = [status |-> "error"]
    /\ ~IsRaised(responses[2])
    /\ responses[2].status = "ok"
    /\ Len(responses[2].articles) = 2
    /\ responses[2].articles[1].url = responses[2].articles[2].url
    /\ responses[2].articles[1].description # None
    /\ Len(result.returns) = 1
    /\ result.returns[1].title = responses[2].articles[1].title

-----------------------------------------------------------------------------
(* Properties of insert_company and insert_article, under SpecStore *)

\* the rows of the table whose column holds the value
RowsOf(table, column, value) == {k \in DOMAIN table : table[k][column] = value}

\* the table has at most one row for each value of the column
OnePerKey(table, column) ==
    \A j, k \in DOMAIN table : table[j][column] = table[k][column] => j = k

\* C23: a call of insert_company for a name that has a row returns the id
\* of that row and executes no INSERT and no commit, the database being
\* left as it was, and insert_article does the same for a URL that has a
\* row; after every call the companies table has at most one row for each
\* name and the articles table at most one row for each URL.
C23_ExistingKeyReturned ==
    [][LET made == calls'[Len(calls')]
           table == IF made.op = "insert_company" THEN "companies" ELSE "articles"
           column == IF made.op = "insert_company" THEN "name" ELSE "url"
           existing == RowsOf(db[table], column, made.key)
       IN  /\ existing # {} =>
                 /\ \E k \in existing : result' = [id |-> db[table][k].id]
                 /\ db' = db
                 /\ "INSERT" \notin ItemsOf(made.statements)
                 /\ "COMMIT" \notin ItemsOf(made.statements)
           /\ OnePerKey(db'.companies, "name")
           /\ OnePerKey(db'.articles, "url")]_vars

\* the last of four calls asked for a company and an article that had rows
C23_Witness ==
    /\ pc = "DatabaseManager"
    /\ Len(calls) = 4
    /\ calls[1].op = "insert_company"
    /\ calls[2].op = "insert_company"
    /\ calls[2].key = calls[1].key
    /\ calls[3].op = "insert_article"
    /\ calls[4].key = calls[3].key
    /\ calls[4].statements = <<"SELECT", "SELECT">>
    /\ calls[2].statements = <<"SELECT">>
    /\ Len(db.companies) = 1
    /\ Len(db.articles) = 1
    /\ result = [id |-> 1]

-----------------------------------------------------------------------------
(* Properties of the rows stored by runs of the pipeline, under SpecRuns *)

\* the sentiment score rows of the article
ScoresOf(article_id) ==
    {k \in DOMAIN db.sentiment_scores : db.sentiment_scores[k].article_id = article_id}

\* C24: after any sequence of runs of process_pipeline each stored article
\* has at most one sentiment score row, also when its URL was delivered
\* twice in one run or again in a later run.
C24_OneScorePerArticle ==
    \A k \in DOMAIN db.articles : Cardinality(ScoresOf(db.articles[k].id)) <= 1

\* C25: every article row that _process_articles inserted has a sentiment
\* score row at the end of the run, also the article whose text is blank and
\* the article whose score insert failed.
C25_EveryArticleScored ==
    \A k \in DOMAIN db.articles : ScoresOf(db.articles[k].id) # {}

-----------------------------------------------------------------------------
(* Properties of concurrent calls of the database manager, under SpecRace *)

\* C29: when two concurrent calls of insert_article for one URL, or of
\* insert_company for one name, have both ended, the table holds at most one
\* row for that key and both calls have returned the same id.
C29_OneRowOneId ==
    (/\ \A c \in DOMAIN callers : callers[c].pc = "done"
     /\ callers[1].key = callers[2].key) =>
        /\ Cardinality(RowsOf(db[TableOf(callers[1].op)], ColumnOf(callers[1].op),
                              callers[1].key)) <= 1
        /\ "id" \in DOMAIN callers[1].returns
        /\ callers[1].returns = callers[2].returns

====
